---- MODULE Spec2Model ----
(***************************************************************************)
(* A model of the Asteroids clone (src/game_state.py, src/assets.py,       *)
(* src/utility.py): the StateMachine with its five states, the Main        *)
(* session (ship, wreckage, asteroids, enemies, projectiles, timers) and   *)
(* the fragmentation algorithm Asteroid.hit.                               *)
(*                                                                         *)
(* Times are integers in milliseconds.  Positions, velocities and pixel    *)
(* masks are not computed: whether two sprites overlap in a tick is an     *)
(* input of the tick, and the ship's kinematic state is kept in the        *)
(* abstract domain Positions, a velocity that is zero or not, and a        *)
(* facing angle in degrees.                                                 *)
(***************************************************************************)
EXTENDS Integers, Sequences, FiniteSets, Bags, TLC

VARIABLES current_state, running, seen, now, main, endst, frame, hfield, hlast,
          the_gun, gun_calls, the_rect, life, vector, aim, board, spot, body, ledger

vars == <<current_state, running, seen, now, main, endst, frame, hfield, hlast,
          the_gun, gun_calls, the_rect, life, vector, aim, board, spot, body, ledger>>

gameVars == <<current_state, running, seen, now, main, endst, frame>>

hitVars == <<hfield, hlast>>

\* the variables of the specifications of single functions: a gun and the
\* calls of its fire, a rect given to _check_collide, the lives and the
\* extra-life tracker around _add_extra_life, a call of random_angle_vector,
\* the aim of a SMALL enemy, and the highscore file with the last Highscores
unitVars == <<the_gun, gun_calls, the_rect, life, vector, aim, board, spot, body, ledger>>

(***************************************************************************)
(* Bounds of the model.                                                    *)
(***************************************************************************)
\* the clock stops after MaxTicks frames of FrameMs milliseconds
MaxTicks == 15
\* Asteroid.hit is not applied when the field would grow beyond MaxField
MaxField == 4
\* the number of hits applied to the field of SpecHit
MaxHits == 4
\* at most MaxEvents events are queued between two frames
MaxEvents == 2
\* SpecFrag calls Asteroid.hit with number_to_spawn from 1 to MaxSpawn
MaxSpawn == 5
\* the number of calls of Asteroid.hit in a run of SpecFrag
MaxFragCalls == 2
\* SpecGun: the clock runs from 0 to MaxClock ms
MaxClock == 6
\* SpecGun: the number of calls of Gun.fire
MaxShots == 3
\* SpecWrap: the number of moves of the rect
MaxMoves == 2
\* SpecWrap: the longest move along one axis, in pixels
MaxStep == 3
\* SpecLife: the number of extra lives after which the scoring stops
MaxExtraLives == 2

\* SpecAim: the scores given to a SMALL enemy are 100 * (0..MaxAimSteps)
MaxAimSteps == 500
\* SpecLedger: the scoring stops when the score has reached MaxLedgerScore
MaxLedgerScore == 21000
\* SpecEnemy: the clock stops after MaxEnemyTicks frames
MaxEnemyTicks == 21

(***************************************************************************)
(* Program constants.                                                      *)
(***************************************************************************)
LEVEL_TRANSITION_TIME == 1000
BASE_SCORE == 150
STARTING_LIVES == 3
EXTRA_LIFE_TARGET == 10000
DEAD_PLAYER_ANIMATION_SPEED == 24
PLAYER_DEATH_TIMER == 1000
TIME_TO_START == 1000
\* Asteroid.__init__'s default for its last parameter, state
DEFAULT_ASTEROID_STATE == 3
\* random.randint(0, 2) draws the image numbers
MAX_IMAGE_NUMBER == 2
\* the score at which _spawn_enemy always picks a SMALL enemy
SMALL_ENEMY_SCORE == 40000

(***************************************************************************)
(* Tunables that Main.__init__ reads from config.ini (the values are the   *)
(* ones this model runs with; times are in ms).                            *)
(***************************************************************************)
PLAYER_FIRE_INTERVAL == 500       \* 1000 / PLAYER_FIRE_RATE
PLAYER_HYPERSPACE_LENGTH == 500
PLAYER_RESPAWN_TIME == 1000
PLAYER_BULLET_LIFESPAN == 1000
PLAYER_TURN_SPEED == 180          \* degrees per second
ENEMY_FIRE_INTERVAL == 1000       \* 1000 / ENEMY_FIRE_RATE
ENEMY_BULLET_LIFESPAN == 1000
TIME_BETWEEN_ENEMY_SPAWNS == 4000
ENEMY_OVERLAP_OFFSET == 500
ENEMY_MAX_INNACURACY_ANGLE == 30  \* degrees
ENEMY_MIN_INNACURACY_ANGLE == 5
ENEMY_MAX_DIFFICULTY_AT_SCORE == 40000
LEVEL_ASTEROIDS_OFFSET == 0
MAX_NEW_ASTEROIDS == 2
MIN_BROKEN_ASTEROIDS == 2
MAX_BROKEN_ASTEROIDS == 3
\* NEW_ASTEROID_VELOCITY_SCALE = 1.2 = VELOCITY_SCALE_NUM / VELOCITY_SCALE_DEN
VELOCITY_SCALE_NUM == 12
VELOCITY_SCALE_DEN == 10
\* the number of image files of data/sprites/dead_player
DEAD_PLAYER_IMAGES == 18

\* the length of one frame (clock.tick) in ms
FrameMs == 500

\* the time, in ms, within which a ship that cannot be hit recovers:
\* PLAYER_DEATH_TIMER, PLAYER_RESPAWN_TIME and two frames more
RecoverTime == PLAYER_DEATH_TIMER + PLAYER_RESPAWN_TIME + 2 * FrameMs

\* Python values of two types that one attribute may hold
PyChannel(name) == <<"Channel", name>>

PyInt(n) == <<"int", n>>

\* whether value v is a pygame mixer channel (has a play method)
IsChannel(v) == v[1] = "Channel"

(***************************************************************************)
(* Asteroid and Asteroid.hit (src/assets.py).                              *)
(*                                                                         *)
(* An asteroid is a record.  direction is the angle of the unit vector     *)
(* _direction in degrees (Vector2.rotate adds degrees); velocity is the    *)
(* scalar speed in 1/100 pixel per second.                                 *)
(***************************************************************************)
Asteroid(velocity, direction, image_number, spin_amount, pos, explosion_channel, state) ==
    [velocity |-> velocity, direction |-> direction % 360,
     image_number |-> image_number, spin_amount |-> spin_amount,
     pos |-> pos, explosion_channel |-> explosion_channel, state |-> state]

\* a call with six positional arguments: state takes its default
Asteroid6(velocity, direction, image_number, spin_amount, pos, explosion_channel) ==
    Asteroid(velocity, direction, image_number, spin_amount, pos,
             explosion_channel, DEFAULT_ASTEROID_STATE)

ImageNumbers == 0..MAX_IMAGE_NUMBER

\* the rotation unit, in degrees, that hit computes for number_to_spawn
HitRotation(number_to_spawn) ==
    IF number_to_spawn = 2 THEN 180 \div number_to_spawn
    ELSE IF number_to_spawn % 2 = 0 THEN 180 \div (number_to_spawn - 1)
    ELSE 180 \div number_to_spawn

HitSpawnCycles(number_to_spawn) ==
    IF number_to_spawn % 2 = 0 THEN number_to_spawn \div 2
    ELSE (number_to_spawn - 1) \div 2

HitEven(number_to_spawn) == number_to_spawn % 2 = 0

(***************************************************************************)
(* The outcomes of the random.randint draws of one call of hit: first[i]   *)
(* and second[i] are the image numbers of cycle i (the while loop ends     *)
(* with second # first), odd is the image number of the odd asteroid (the  *)
(* while loop ends with a number other than the last one appended).        *)
(***************************************************************************)
HitDraws(number_to_spawn) ==
    LET cycles == HitSpawnCycles(number_to_spawn) IN
    {d \in [first : [1..cycles -> ImageNumbers],
            second : [1..cycles -> ImageNumbers],
            odd : ImageNumbers] :
        /\ \A i \in 1..cycles : d.second[i] # d.first[i]
        /\ (cycles > 0 /\ ~HitEven(number_to_spawn))
              => d.odd # d.second[cycles]}

\* one of the draws: the images 0, 1 in every cycle and 0 for the odd asteroid
SomeDraw(number_to_spawn) ==
    [first |-> [i \in 1..HitSpawnCycles(number_to_spawn) |-> 0],
     second |-> [i \in 1..HitSpawnCycles(number_to_spawn) |-> 1],
     odd |-> 0]

\* new_asteroid_1 and new_asteroid_2 of cycle i (i counts from 1 here)
HitPair(self, state, new_velocity, rotation, d, i) ==
    LET reflect == rotation * i IN
    << Asteroid(new_velocity, self.direction + reflect, d.first[i],
                self.spin_amount, self.pos, self.explosion_channel, state),
       Asteroid(new_velocity, self.direction + 360 - reflect, d.second[i],
                self.spin_amount, self.pos, self.explosion_channel, state) >>

RECURSIVE HitPairs(_, _, _, _, _, _)
HitPairs(self, state, new_velocity, rotation, d, cycles) ==
    IF cycles = 0 THEN << >>
    ELSE HitPairs(self, state, new_velocity, rotation, d, cycles - 1)
         \o HitPair(self, state, new_velocity, rotation, d, cycles)

\* odd_asteroid: six positional arguments, the sixth is state
HitOddAsteroid(self, state, new_velocity, d) ==
    Asteroid6(new_velocity, self.direction + 180, d.odd, self.spin_amount,
              self.pos, PyInt(state))

(***************************************************************************)
(* Asteroid.hit(velocity_scale, number_to_spawn) with the draws d.         *)
(* The result is [raised, is_none, list]: raised is the exception that     *)
(* left the call ("" when it returned), is_none whether it returned None,  *)
(* list the list it returned otherwise.                                    *)
(***************************************************************************)
hit(self, scale_num, scale_den, number_to_spawn, d) ==
    IF ~IsChannel(self.explosion_channel)
    THEN [raised |-> "AttributeError", is_none |-> TRUE, list |-> << >>]
    ELSE IF self.state > 1
    THEN LET state == self.state - 1
             new_velocity == (self.velocity * scale_num) \div scale_den
             new_list == HitPairs(self, state, new_velocity,
                                  HitRotation(number_to_spawn), d,
                                  HitSpawnCycles(number_to_spawn))
         IN [raised |-> "", is_none |-> FALSE,
             list |-> IF HitEven(number_to_spawn) THEN new_list
                      ELSE Append(new_list,
                                  HitOddAsteroid(self, state, new_velocity, d))]
    ELSE [raised |-> "", is_none |-> TRUE, list |-> << >>]


(***************************************************************************)
(* Asteroid.spawn: the asteroids of a wave.  Speed, direction, image and   *)
(* spin are random; the model draws them from small sets.                  *)
(***************************************************************************)
WaveSpeeds == {15000}
WaveDirections == {45, 135}
WaveSpins == {100}

WaveAsteroids ==
    {Asteroid6(v, dir, im, sp, "away", PyChannel("explosion_asteroid")) :
        v \in WaveSpeeds, dir \in WaveDirections,
        im \in ImageNumbers, sp \in WaveSpins}

BrokenCounts == MIN_BROKEN_ASTEROIDS..MAX_BROKEN_ASTEROIDS

RECURSIVE SeqToBag(_)
SeqToBag(list) ==
    IF list = << >> THEN EmptyBag
    ELSE SetToBag({Head(list)}) (+) SeqToBag(Tail(list))

(***************************************************************************)
(* SpecHit: a field that starts with one asteroid of a wave; each step is  *)
(* what Main._check_asteroid_collisions does for one shot asteroid: the    *)
(* asteroid leaves the group, hit is called on it with a random            *)
(* number_to_spawn, and the list it returns joins the group.  hlast keeps  *)
(* the last call: its receiver, argument and result.  An exception ends    *)
(* the program.                                                            *)
(***************************************************************************)
NoHitResult == [raised |-> "", is_none |-> TRUE, list |-> << >>]

HitInit ==
    \E a \in WaveAsteroids :
        /\ hfield = SetToBag({a})
        /\ hlast = [calls |-> 0, self |-> a, number_to_spawn |-> 0,
                    result |-> NoHitResult]

HitStep ==
    /\ hlast.calls < MaxHits
    /\ hlast.result.raised = ""
    /\ \E self \in BagToSet(hfield), n \in BrokenCounts :
         \E d \in HitDraws(n) :
            LET r == hit(self, VELOCITY_SCALE_NUM, VELOCITY_SCALE_DEN, n, d)
                rest == hfield (-) SetToBag({self})
                new == rest (+) SeqToBag(r.list)
            IN /\ BagCardinality(new) <= MaxField
               /\ hfield' = new
               /\ hlast' = [calls |-> hlast.calls + 1, self |-> self,
                            number_to_spawn |-> n, result |-> r]

(***************************************************************************)
(* The state machine (src/game_state.py).                                  *)
(*                                                                         *)
(* GameStates are strings; None is the terminate signal.  One frame's      *)
(* input is the batch of queued events (pygame.event.get), the keys held   *)
(* (pygame.key.get_pressed) and the button under the mouse                 *)
(* (pygame.mouse.get_pos, "" when it is over no button).                   *)
(***************************************************************************)
None == "None"

GameStates == {"INTRO", "CONTROLS", "OPTIONS", "MAIN", "END"}

\* the states that carry a seen flag (End has none)
SeenStates == {"INTRO", "CONTROLS", "OPTIONS", "MAIN"}

IntroButtons == [New_Game |-> "MAIN", Controls |-> "CONTROLS", Options |-> "OPTIONS", Quit |-> None]

\* a Back button that starts the game
ControlsButtonsToMain == [Back |-> "MAIN"]

ControlsButtons == [Back |-> "INTRO"]

OptionsButtons == [Save |-> "INTRO", Back |-> "INTRO"]

EndButtons == [New_Game |-> "MAIN", Main_Menu |-> "INTRO", Quit |-> None]

\* the button a click at mouse presses: its target replaces next_state
Click(buttons, mouse, next_state) ==
    IF mouse \in DOMAIN buttons THEN buttons[mouse] ELSE next_state

\* Intro.get_input: QUIT, Escape and Return leave the event loop
RECURSIVE IntroScan(_, _, _)
IntroScan(events, mouse, next_state) ==
    IF events = << >> THEN next_state
    ELSE LET event == Head(events) IN
         IF event = "QUIT" THEN None
         ELSE IF event = "K_ESCAPE" THEN None
         ELSE IF event = "K_RETURN" THEN "MAIN"
         ELSE IF event = "MOUSEBUTTONDOWN"
         THEN IntroScan(Tail(events), mouse, Click(IntroButtons, mouse, next_state))
         ELSE IntroScan(Tail(events), mouse, next_state)

IntroGetInput(events, mouse) == [next_state |-> IntroScan(events, mouse, "INTRO")]

\* Controls.get_input: QUIT and Escape leave the event loop
RECURSIVE ControlsScan(_, _, _)
ControlsScan(events, mouse, next_state) ==
    IF events = << >> THEN next_state
    ELSE LET event == Head(events) IN
         IF event = "QUIT" THEN None
         ELSE IF event = "K_ESCAPE" THEN "INTRO"
         ELSE IF event = "MOUSEBUTTONDOWN"
         THEN ControlsScan(Tail(events), mouse, Click(ControlsButtons, mouse, next_state))
         ELSE ControlsScan(Tail(events), mouse, next_state)

ControlsGetInput(events, mouse) == [next_state |-> ControlsScan(events, mouse, "CONTROLS")]

\* Options.get_input: save is set by a click on Save
RECURSIVE OptionsScan(_, _, _)
OptionsScan(events, mouse, d) ==
    IF events = << >> THEN d
    ELSE LET event == Head(events) IN
         IF event = "QUIT" THEN [d EXCEPT !.next_state = None]
         ELSE IF event = "K_ESCAPE" THEN [d EXCEPT !.next_state = "INTRO"]
         ELSE IF event = "MOUSEBUTTONDOWN"
         THEN OptionsScan(Tail(events), mouse,
                          [next_state |-> Click(OptionsButtons, mouse, d.next_state),
                           save |-> d.save \/ mouse = "Save"])
         ELSE OptionsScan(Tail(events), mouse, d)

OptionsGetInput(events, mouse) ==
    OptionsScan(events, mouse, [next_state |-> "OPTIONS", save |-> FALSE])

\* End.get_input: as Intro's
RECURSIVE EndScan(_, _, _)
EndScan(events, mouse, next_state) ==
    IF events = << >> THEN next_state
    ELSE LET event == Head(events) IN
         IF event = "QUIT" THEN None
         ELSE IF event = "K_ESCAPE" THEN None
         ELSE IF event = "K_RETURN" THEN "MAIN"
         ELSE IF event = "MOUSEBUTTONDOWN"
         THEN EndScan(Tail(events), mouse, Click(EndButtons, mouse, next_state))
         ELSE EndScan(Tail(events), mouse, next_state)

EndGetInput(events, mouse) == [next_state |-> EndScan(events, mouse, "END")]

\* Main.get_input: every event of the batch is read, none leaves the loop
RECURSIVE MainScan(_, _)
MainScan(events, d) ==
    IF events = << >> THEN d
    ELSE LET event == Head(events) IN
         MainScan(Tail(events),
            IF event = "QUIT" THEN [d EXCEPT !.next_state = None]
            ELSE IF event = "K_ESCAPE" THEN [d EXCEPT !.next_state = "INTRO"]
            ELSE IF event = "K_LSHIFT" THEN [d EXCEPT !.player_hyperspace = TRUE]
            ELSE IF event = "K_SPACE" THEN [d EXCEPT !.player_fire = TRUE]
            ELSE IF event = "KEYUP_K_UP" THEN [d EXCEPT !.player_engine_off = TRUE]
            ELSE d)

MainGetInput(events, keys) ==
    LET d == MainScan(events, [next_state |-> "MAIN", player_hyperspace |-> FALSE,
                               player_fire |-> FALSE, player_engine_on |-> FALSE,
                               player_engine_off |-> FALSE, player_turn |-> 0])
    IN [d EXCEPT !.player_engine_on = "K_UP" \in keys,
                 !.player_turn = IF "K_RIGHT" \in keys THEN -1
                                 ELSE IF "K_LEFT" \in keys THEN 1 ELSE 0]

\* all batches of at most n events of the alphabet
RECURSIVE Batches(_, _)
Batches(alphabet, n) ==
    IF n = 0 THEN {<< >>}
    ELSE LET shorter == Batches(alphabet, n - 1)
         IN shorter \cup {Append(b, e) : b \in shorter, e \in alphabet}

MenuEvents == {"QUIT", "K_ESCAPE", "K_RETURN", "MOUSEBUTTONDOWN"}

(***************************************************************************)
(* The ship (assets.Player) and its gun.  velocity and pos are abstract:   *)
(* velocity is "zero" or "moving", pos is "centre" (the default spawn      *)
(* point, screen.get_rect().center) or "away".  facing_direction is the    *)
(* angle of the unit vector in degrees; PLAYER_DIR = (0, -1) is 270.       *)
(***************************************************************************)
PLAYER_THRUST == 16000
PLAYER_DIR == 270

Positions == {"centre", "away"}

Gun == [last_shot_time |-> 0]

Player(lives, remains_alive, respawn_length) ==
    [lives |-> lives, thrusting |-> FALSE, alive |-> TRUE, respawning |-> FALSE,
     respawn_length |-> respawn_length, respawn_duration |-> 0,
     acceleration_magnitude |-> 0, turn_amount |-> 0, gun |-> Gun,
     remains_alive |-> remains_alive, hyperspace_duration |-> 0,
     in_hyperspace |-> FALSE, facing_direction |-> PLAYER_DIR,
     velocity |-> "zero", pos |-> "centre"]

\* Player._reset
PlayerReset(p, new_pos) ==
    [p EXCEPT !.velocity = "zero", !.pos = new_pos,
              !.facing_direction = PLAYER_DIR, !.thrusting = FALSE]

\* Player.respawn
PlayerRespawn(p, respawn_length, new_pos, reset) ==
    LET q == [p EXCEPT !.alive = TRUE, !.respawning = TRUE,
                       !.respawn_duration = 0, !.respawn_length = respawn_length]
    IN IF reset THEN [PlayerReset(q, new_pos) EXCEPT !.remains_alive = TRUE] ELSE q

PlayerEngineOn(p) == [p EXCEPT !.acceleration_magnitude = PLAYER_THRUST, !.thrusting = TRUE]

PlayerEngineOff(p) == [p EXCEPT !.thrusting = FALSE]

PlayerTurn(p, turn_dir) == [p EXCEPT !.turn_amount = PLAYER_TURN_SPEED * turn_dir]

(***************************************************************************)
(* Player.hyperspace.  The draw h holds the random position and, in        *)
(* percent, the value of random.random().  The ship dies when the roll     *)
(* exceeds lerp(0.75, 0.98, normalize(number_of_asteroids, 1, 60)), that   *)
(* is when roll * 59 > 75 * 59 + 23 * (number_of_asteroids - 1).           *)
(***************************************************************************)
HyperspaceRolls == {0, 99}

HyperspaceDraws == [pos : Positions, roll : HyperspaceRolls]

PlayerHyperspace(p, number_of_asteroids, h) ==
    [p EXCEPT !.in_hyperspace = TRUE, !.velocity = "zero",
              !.hyperspace_duration = 0, !.thrusting = FALSE, !.pos = h.pos,
              !.remains_alive = ~(h.roll * 59 > 75 * 59 + 23 * (number_of_asteroids - 1))]

\* Gun.fire: whether a call at current_time yields a shot
GunFires(gun, fire_rate, current_time) == ~(current_time < gun.last_shot_time + fire_rate)

\* a fire that leaves _last_shot_time as it is
GunFireKeepsTime(gun, fire_rate, current_time) == gun

\* Gun.fire: the gun after the call
GunFire(gun, fire_rate, current_time) ==
    IF GunFires(gun, fire_rate, current_time)
    THEN [gun EXCEPT !.last_shot_time = current_time] ELSE gun

\* a new Shot: its _lifetime
Shot == 0

(***************************************************************************)
(* Player.update(delta_time), called by the players group when the ship    *)
(* is a member of it.  The facing direction is rotated by                  *)
(* -turn_amount * delta_time; a thrust makes the velocity "moving" and     *)
(* drag alone does not bring a moving ship to rest; a moving ship moves    *)
(* away from where it is.  The frame's directives are reset at the end.     *)
(***************************************************************************)
PlayerUpdate(p, delta_time) ==
    LET hyper == p.hyperspace_duration + delta_time
        p1 == IF p.in_hyperspace
              THEN [p EXCEPT !.hyperspace_duration = hyper,
                             !.in_hyperspace = ~(hyper >= PLAYER_HYPERSPACE_LENGTH)]
              ELSE p
        resp == p1.respawn_duration + delta_time
        p2 == IF p1.respawning
              THEN [p1 EXCEPT !.respawn_duration = resp,
                              !.respawning = ~(resp >= p1.respawn_length)]
              ELSE p1
        facing == (p2.facing_direction
                     + 720 - ((p2.turn_amount * delta_time) \div 1000)) % 360
        velocity == IF p2.acceleration_magnitude # 0 THEN "moving" ELSE p2.velocity
    IN [p2 EXCEPT !.facing_direction = facing, !.velocity = velocity,
                  !.pos = IF velocity = "moving" THEN "away" ELSE p2.pos,
                  !.acceleration_magnitude = 0, !.turn_amount = 0]

\* DeadPlayer: the wreckage; image_counter is kept in 1/1000 image
DeadPlayer == [image_counter |-> 0]

\* DeadPlayer.update: the counter after the call
DeadPlayerUpdate(dp, delta_time) ==
    [dp EXCEPT !.image_counter = dp.image_counter + DEAD_PLAYER_ANIMATION_SPEED * delta_time]

\* DeadPlayer.update: whether the call ends with self.kill()
DeadPlayerDone(dp) == dp.image_counter >= DEAD_PLAYER_IMAGES * 1000

(***************************************************************************)
(* Enemies (assets.Enemy).  EnemyStates: SMALL = 1, BIG = 2.               *)
(***************************************************************************)
SMALL == 1
BIG == 2

Enemy(state) == [state |-> state, gun |-> Gun, primed |-> TRUE]

\* the interval of an enemy's gun: Gun(fire_rate * state.value, ...)
EnemyFireRate(enemy) == ENEMY_FIRE_INTERVAL * enemy.state

(***************************************************************************)
(* The Main state.  main is the Main object: the session's fields, the     *)
(* ship (player), the wreckage (dead_player) and the sprite groups.        *)
(*   players      the members of the players group, among "player" and     *)
(*                "dead_player"                                            *)
(*   asteroids    a bag of [state, explosion_channel]                      *)
(*   enemies      a sequence of Enemy records                              *)
(*   shots, enemy_shots   bags of the projectiles' _lifetime in ms         *)
(*   all_assets   whether the list holds the groups (False once cleared)   *)
(*   exc          the exception that ended the program, "" if none         *)
(***************************************************************************)
GameAsteroid(a) == [state |-> a.state, explosion_channel |-> a.explosion_channel]

\* the asteroid object behind a member of the group, for a call of hit
FullAsteroid(ga) == Asteroid(0, 0, 0, 0, "away", ga.explosion_channel, ga.state)

RECURSIVE GameAsteroids(_)
GameAsteroids(list) ==
    IF list = << >> THEN EmptyBag
    ELSE SetToBag({GameAsteroid(Head(list))}) (+) GameAsteroids(Tail(list))

\* n copies of element x as a bag
RECURSIVE Copies(_, _)
Copies(x, n) == IF n = 0 THEN EmptyBag ELSE SetToBag({x}) (+) Copies(x, n - 1)

\* Main.__init__: what exists before the first _first_render
MainObject ==
    [score |-> 0, extra_life_tracker |-> 0, player_out_of_lives |-> FALSE,
     level |-> 0, asteroids_spawned |-> FALSE, player_hit_time |-> 0,
     previous_enemy_spawn |-> 0, enemy_spawned |-> FALSE,
     level_start_time |-> 0, level_started |-> FALSE,
     player_has_control |-> FALSE, player_is_vulnerable |-> FALSE,
     player |-> Player(0, TRUE, 0), dead_player |-> DeadPlayer,
     players |-> {}, asteroids |-> EmptyBag, enemies |-> << >>,
     shots |-> EmptyBag, enemy_shots |-> EmptyBag,
     all_assets |-> FALSE, exc |-> ""]

\* a _first_render that keeps the score and the level of the last session
FirstRenderKeepsScore(m, current_time) ==
    [m EXCEPT !.extra_life_tracker = 0,
              !.player_out_of_lives = FALSE,
              !.asteroids_spawned = FALSE, !.player_hit_time = 0,
              !.enemy_spawned = FALSE,
              !.players = {"player"}, !.enemies = << >>,
              !.asteroids = EmptyBag, !.shots = EmptyBag,
              !.enemy_shots = EmptyBag,
              !.player = Player(STARTING_LIVES, TRUE, PLAYER_RESPAWN_TIME),
              !.all_assets = TRUE,
              !.level_start_time = current_time + LEVEL_TRANSITION_TIME,
              !.previous_enemy_spawn = current_time + LEVEL_TRANSITION_TIME,
              !.level_started = FALSE, !.player_has_control = TRUE,
              !.player_is_vulnerable = TRUE]

\* Main._first_render at time current_time
FirstRender(m, current_time) ==
    [m EXCEPT !.score = 0, !.extra_life_tracker = 0,
              !.player_out_of_lives = FALSE, !.level = 1,
              !.asteroids_spawned = FALSE, !.player_hit_time = 0,
              !.enemy_spawned = FALSE,
              !.players = {"player"}, !.enemies = << >>,
              !.asteroids = EmptyBag, !.shots = EmptyBag,
              !.enemy_shots = EmptyBag,
              !.player = Player(STARTING_LIVES, TRUE, PLAYER_RESPAWN_TIME),
              !.all_assets = TRUE,
              !.level_start_time = current_time + LEVEL_TRANSITION_TIME,
              !.previous_enemy_spawn = current_time + LEVEL_TRANSITION_TIME,
              !.level_started = FALSE, !.player_has_control = TRUE,
              !.player_is_vulnerable = TRUE]

\* Main._prepare_next_state (seen is reset by the caller, MainTick)
PrepareNextState(m) == [m EXCEPT !.all_assets = FALSE]

\* Main._check_player_control
CheckPlayerControl(m) ==
    [m EXCEPT !.player_has_control = m.player.alive /\ ~m.player.in_hyperspace]

\* Main._check_player_vulnerability
CheckPlayerVulnerability(m) ==
    LET c == CheckPlayerControl(m)
    IN [c EXCEPT !.player_is_vulnerable = c.player_has_control /\ ~c.player.respawning]

\* a _handle_input that does not look at player_has_control
HandleInputAlways(m, input_dict, player_has_control, current_time, h) ==
    LET p1 == IF input_dict.player_engine_on THEN PlayerEngineOn(m.player) ELSE m.player
        p2 == IF input_dict.player_engine_off THEN PlayerEngineOff(p1) ELSE p1
        p3 == IF input_dict.player_turn # 0 THEN PlayerTurn(p2, input_dict.player_turn) ELSE p2
        p4 == IF input_dict.player_hyperspace
              THEN PlayerHyperspace(p3, BagCardinality(m.asteroids), h) ELSE p3
        fires == input_dict.player_fire /\ GunFires(p4.gun, PLAYER_FIRE_INTERVAL, current_time)
        p5 == IF input_dict.player_fire
              THEN [p4 EXCEPT !.gun = GunFire(p4.gun, PLAYER_FIRE_INTERVAL, current_time)]
              ELSE p4
    IN [m EXCEPT !.player = p5,
                 !.shots = IF fires THEN m.shots (+) SetToBag({Shot}) ELSE m.shots]

\* Main._handle_input; h is the draw of Player.hyperspace
HandleInput(m, input_dict, player_has_control, current_time, h) ==
    IF ~player_has_control THEN m
    ELSE LET p1 == IF input_dict.player_engine_on THEN PlayerEngineOn(m.player) ELSE m.player
             p2 == IF input_dict.player_engine_off THEN PlayerEngineOff(p1) ELSE p1
             p3 == IF input_dict.player_turn # 0 THEN PlayerTurn(p2, input_dict.player_turn) ELSE p2
             p4 == IF input_dict.player_hyperspace
                   THEN PlayerHyperspace(p3, BagCardinality(m.asteroids), h) ELSE p3
             fires == input_dict.player_fire /\ GunFires(p4.gun, PLAYER_FIRE_INTERVAL, current_time)
             p5 == IF input_dict.player_fire
                   THEN [p4 EXCEPT !.gun = GunFire(p4.gun, PLAYER_FIRE_INTERVAL, current_time)]
                   ELSE p4
         IN [m EXCEPT !.player = p5,
                      !.shots = IF fires THEN m.shots (+) SetToBag({Shot}) ELSE m.shots]

(***************************************************************************)
(* Main._check_player_collisions.  The contact c of the frame says what    *)
(* overlaps a sprite of the players group: an asteroid, an enemy, and the  *)
(* bag c.enemy_shots of enemy projectiles.  The projectiles that collide   *)
(* are removed from their group (dokill2).                                 *)
(***************************************************************************)
NoContact == [asteroid |-> FALSE, enemy |-> FALSE, enemy_shots |-> EmptyBag]

\* the contacts that the groups of m allow
Contacts(m) ==
    IF m.players = {} THEN {NoContact}
    ELSE [asteroid : IF m.asteroids = EmptyBag THEN {FALSE} ELSE BOOLEAN,
          enemy : IF m.enemies = << >> THEN {FALSE} ELSE BOOLEAN,
          enemy_shots : SubBag(m.enemy_shots)]

\* len(colliding_things) > 0
Colliding(c) == c.asteroid \/ c.enemy \/ c.enemy_shots # EmptyBag

CheckPlayerCollisions(m, c) == [m EXCEPT !.enemy_shots = m.enemy_shots (-) c.enemy_shots]

\* Main._kill_player; player_out_of_lives takes the value it returns
KillPlayer(m, current_time) ==
    LET lives == m.player.lives - 1
    IN [m EXCEPT !.dead_player = DeadPlayer,
                 !.players = (m.players \ {"player"}) \cup {"dead_player"},
                 !.player = [PlayerEngineOff(m.player) EXCEPT !.lives = lives, !.alive = FALSE],
                 !.player_hit_time = current_time,
                 !.player_out_of_lives = lives < 1]

\* Main._respawn_player
RespawnPlayer(m) ==
    [m EXCEPT !.players = (m.players \ {"dead_player"}) \cup {"player"},
              !.player = PlayerRespawn(m.player, PLAYER_RESPAWN_TIME, "centre", TRUE)]

\* End.setup(score, lives, level, asset_list) at time current_time
EndSetup(score, lives, level, current_time) ==
    [is_set_up |-> TRUE, score |-> score, lives |-> lives, level |-> level,
     menu_showing |-> FALSE, start_time |-> current_time]

\* End.__init__: setup has not run
EndObject ==
    [is_set_up |-> FALSE, score |-> 0, lives |-> 0, level |-> 0,
     menu_showing |-> FALSE, start_time |-> 0]

(***************************************************************************)
(* Main._shoot_enemies.  The plan says which enemies (indices) overlap a    *)
(* shot of the ship and which shots overlap an enemy; both are removed.    *)
(***************************************************************************)
NonEmptySubBags(bag) == SubBag(bag) \ {EmptyBag}

EnemyPlans(m) ==
    {[enemies |-> {}, shots |-> EmptyBag]} \cup
    [enemies : SUBSET (1..Len(m.enemies)) \ {{}}, shots : NonEmptySubBags(m.shots)]

RECURSIVE EnemyScore(_, _)
EnemyScore(enemies, shot) ==
    IF shot = {} THEN 0
    ELSE LET i == CHOOSE i \in shot : TRUE
         IN BASE_SCORE * enemies[i].state + EnemyScore(enemies, shot \ {i})

\* a _shoot_enemies that leaves enemy_spawned as it is
ShootEnemiesKeepsFlag(m, current_time, plan) ==
    LET left == SelectSeq([i \in 1..Len(m.enemies) |->
                             IF i \in plan.enemies THEN << >> ELSE <<m.enemies[i]>>],
                          LAMBDA e : e # << >>)
    IN IF plan.enemies = {} THEN m
       ELSE [m EXCEPT !.score = m.score + EnemyScore(m.enemies, plan.enemies),
                      !.extra_life_tracker = m.extra_life_tracker
                                                + EnemyScore(m.enemies, plan.enemies),
                      !.enemies = [i \in 1..Len(left) |-> left[i][1]],
                      !.shots = m.shots (-) plan.shots,
                      !.previous_enemy_spawn = current_time - ENEMY_OVERLAP_OFFSET]

ShootEnemies(m, current_time, plan) ==
    LET gain == EnemyScore(m.enemies, plan.enemies)
        left == SelectSeq([i \in 1..Len(m.enemies) |->
                             IF i \in plan.enemies THEN << >> ELSE <<m.enemies[i]>>],
                          LAMBDA e : e # << >>)
    IN IF plan.enemies = {} THEN m
       ELSE [m EXCEPT !.score = m.score + gain,
                      !.extra_life_tracker = m.extra_life_tracker + gain,
                      !.enemies = [i \in 1..Len(left) |-> left[i][1]],
                      !.shots = m.shots (-) plan.shots,
                      !.enemy_spawned = FALSE,
                      !.previous_enemy_spawn = current_time - ENEMY_OVERLAP_OFFSET]

(***************************************************************************)
(* Main._spawn_enemy.  gen is random.random() in 1/40000: the enemy is      *)
(* SMALL when normalize(score, 0, 40000) >= gen, that is score >= gen.      *)
(***************************************************************************)
EnemyStateGens == {0, SMALL_ENEMY_SCORE - 1}

SpawnEnemy(m, current_time, gen) ==
    LET new_enemy_state == IF m.score >= gen THEN SMALL ELSE BIG
    IN [m EXCEPT !.enemies = Append(m.enemies, Enemy(new_enemy_state)),
                 !.previous_enemy_spawn = current_time,
                 !.enemy_spawned = TRUE]

\* a spawn that does not wait
EnemyDueAtOnce(m, current_time) == ~m.enemy_spawned

\* the condition under which Main.update calls _spawn_enemy
EnemyDue(m, current_time) ==
    ~m.enemy_spawned /\ current_time - m.previous_enemy_spawn >= TIME_BETWEEN_ENEMY_SPAWNS

\* an extra life that restarts the tracker at 0
AddExtraLifeResets(m) ==
    IF m.extra_life_tracker >= EXTRA_LIFE_TARGET
    THEN [m EXCEPT !.player.lives = m.player.lives + 1, !.extra_life_tracker = 0]
    ELSE m

\* Main._add_extra_life
AddExtraLife(m) ==
    IF m.extra_life_tracker >= EXTRA_LIFE_TARGET
    THEN [m EXCEPT !.player.lives = m.player.lives + 1,
                   !.extra_life_tracker = m.extra_life_tracker % EXTRA_LIFE_TARGET]
    ELSE m

\* a transition that leaves the level counter to the spawn of the wave
StartLevelTransitionKeepsLevel(m, current_time) ==
    [m EXCEPT !.shots = EmptyBag,
              !.level_start_time = current_time + LEVEL_TRANSITION_TIME,
              !.previous_enemy_spawn = current_time + LEVEL_TRANSITION_TIME,
              !.player = PlayerRespawn(m.player, LEVEL_TRANSITION_TIME, m.player.pos, FALSE),
              !.asteroids_spawned = FALSE, !.level_started = FALSE]

\* Main._start_level_transition
StartLevelTransition(m, current_time) ==
    [m EXCEPT !.level = m.level + 1, !.shots = EmptyBag,
              !.level_start_time = current_time + LEVEL_TRANSITION_TIME,
              !.previous_enemy_spawn = current_time + LEVEL_TRANSITION_TIME,
              !.player = PlayerRespawn(m.player, LEVEL_TRANSITION_TIME, m.player.pos, FALSE),
              !.asteroids_spawned = FALSE, !.level_started = FALSE]

\* min(a, b)
Min(a, b) == IF a < b THEN a ELSE b

\* Asteroid.spawn as the members it adds to the group: number of new rocks,
\* each with the default state and the channel it is given
AsteroidSpawn(number, explosion_channel) ==
    Copies(GameAsteroid(Asteroid6(0, 0, 0, 0, "away", explosion_channel)), number)

\* a wave sized by the level before the one it belongs to
StartNextLevelOfLastLevel(m) ==
    LET asteroid_number == Min(MAX_NEW_ASTEROIDS, m.level - 1 + LEVEL_ASTEROIDS_OFFSET)
    IN [m EXCEPT !.asteroids = m.asteroids (+) AsteroidSpawn(asteroid_number, PyChannel("explosion_asteroid")),
                 !.asteroids_spawned = TRUE, !.level_started = TRUE]

\* Main._start_next_level
StartNextLevel(m) ==
    LET asteroid_number == Min(MAX_NEW_ASTEROIDS, m.level + LEVEL_ASTEROIDS_OFFSET)
    IN [m EXCEPT !.asteroids = m.asteroids (+) AsteroidSpawn(asteroid_number, PyChannel("explosion_asteroid")),
                 !.asteroids_spawned = TRUE, !.level_started = TRUE]

\* a level logic that does not look at the enemies group
LevelLogicIgnoresEnemies(m, current_time) ==
    IF m.asteroids = EmptyBag
    THEN LET m1 == IF m.asteroids_spawned THEN StartLevelTransition(m, current_time) ELSE m
         IN IF current_time - m1.level_start_time >= 0 THEN StartNextLevel(m1) ELSE m1
    ELSE m

\* Main.update: the level logic after _add_extra_life
LevelLogic(m, current_time) ==
    IF m.asteroids = EmptyBag /\ m.enemies = << >>
    THEN LET m1 == IF m.asteroids_spawned THEN StartLevelTransition(m, current_time) ELSE m
         IN IF current_time - m1.level_start_time >= 0 THEN StartNextLevel(m1) ELSE m1
    ELSE m

\* Main._enemy_fire
RECURSIVE EnemyFireFrom(_, _, _)
EnemyFireFrom(m, current_time, i) ==
    IF i > Len(m.enemies) THEN m
    ELSE LET enemy == m.enemies[i]
             fires == enemy.primed /\ GunFires(enemy.gun, EnemyFireRate(enemy), current_time)
             m1 == IF fires
                   THEN [m EXCEPT !.enemies[i].gun = GunFire(enemy.gun, EnemyFireRate(enemy), current_time),
                                  !.enemy_shots = m.enemy_shots (+) SetToBag({Shot})]
                   ELSE m
         IN EnemyFireFrom(m1, current_time, i + 1)

EnemyFire(m, current_time) == EnemyFireFrom(m, current_time, 1)

(***************************************************************************)
(* Main._check_asteroid_collisions.  A plan of the frame's collisions:     *)
(*   by_player, by_enemies   the asteroids a shot of the ship, then of an  *)
(*                  enemy, overlaps, each with the number_to_spawn drawn   *)
(*                  for it and whether the loop reaches it (processed)     *)
(*   shots, enemy_shots      the projectiles that overlap an asteroid      *)
(* groupcollide removes all of them from their groups before the loop.     *)
(* The loop stops at the first asteroid whose hit raises; the order of the *)
(* dict is not modelled, so in a plan that raises any of the other         *)
(* asteroids may have been reached before.                                 *)
(***************************************************************************)
Raises(ga) == ~IsChannel(ga.explosion_channel)

HitChoice(ga, n, processed) == [asteroid |-> ga, number_to_spawn |-> n, processed |-> processed]

\* mode "all": no hit of the loop raises; "some": one does, in this part of
\* the dict; "none": one did in the part before
HitChoices(ga, mode) ==
    LET reached == {HitChoice(ga, n, TRUE) :
                       n \in IF ga.state > 1 THEN BrokenCounts ELSE {MIN_BROKEN_ASTEROIDS}}
        skipped == {HitChoice(ga, MIN_BROKEN_ASTEROIDS, FALSE)}
    IN IF Raises(ga) \/ mode = "none" THEN skipped
       ELSE IF mode = "some" THEN reached \cup skipped
       ELSE reached

RECURSIVE BagSum(_)
BagSum(bags) ==
    IF bags = {} THEN EmptyBag
    ELSE LET b == CHOOSE b \in bags : TRUE IN b (+) BagSum(bags \ {b})

\* the asteroids of a bag of hit choices
RECURSIVE HitAsteroids(_)
HitAsteroids(choices) ==
    IF choices = EmptyBag THEN EmptyBag
    ELSE LET h == CHOOSE h \in BagToSet(choices) : TRUE
         IN SetToBag({h.asteroid}) (+) HitAsteroids(choices (-) SetToBag({h}))

\* the bags of choices for the asteroids that collided
HitBags(collided, mode) ==
    LET every == BagSum({Copies(h, CopiesIn(h.asteroid, collided)) :
                            h \in UNION {HitChoices(ga, mode) : ga \in BagToSet(collided)}})
    IN {b \in SubBag(every) : HitAsteroids(b) = collided}

AnyRaises(collided) == \E ga \in BagToSet(collided) : Raises(ga)

PlansFor(m, by_player, by_enemies) ==
    [by_player : HitBags(by_player, IF AnyRaises(by_player) THEN "some" ELSE "all"),
     shots : IF by_player = EmptyBag THEN {EmptyBag} ELSE NonEmptySubBags(m.shots),
     by_enemies : HitBags(by_enemies, IF AnyRaises(by_player) THEN "none"
                                      ELSE IF AnyRaises(by_enemies) THEN "some" ELSE "all"),
     enemy_shots : IF by_enemies = EmptyBag THEN {EmptyBag} ELSE NonEmptySubBags(m.enemy_shots)]

AsteroidPlans(m) ==
    UNION {UNION {PlansFor(m, by_player, by_enemies) :
                     by_enemies \in IF m.enemy_shots = EmptyBag THEN {EmptyBag}
                                    ELSE SubBag(m.asteroids (-) by_player)} :
              by_player \in IF m.shots = EmptyBag THEN {EmptyBag} ELSE SubBag(m.asteroids)}

NoPlan == [by_player |-> EmptyBag, shots |-> EmptyBag, by_enemies |-> EmptyBag, enemy_shots |-> EmptyBag]

\* the loop's body for the asteroids it reaches, one after the other
RECURSIVE ProcessHits(_, _, _)
ProcessHits(m, choices, by_player) ==
    IF choices = EmptyBag THEN m
    ELSE LET h == CHOOSE h \in BagToSet(choices) : TRUE
             score_gain == IF by_player THEN BASE_SCORE \div h.asteroid.state ELSE 0
             new_asteroids == hit(FullAsteroid(h.asteroid), VELOCITY_SCALE_NUM, VELOCITY_SCALE_DEN,
                                  h.number_to_spawn, SomeDraw(h.number_to_spawn))
             m1 == IF h.processed
                   THEN [m EXCEPT !.score = m.score + score_gain,
                                  !.extra_life_tracker = m.extra_life_tracker + score_gain,
                                  !.asteroids = IF new_asteroids.is_none THEN m.asteroids
                                                ELSE m.asteroids (+) GameAsteroids(new_asteroids.list)]
                   ELSE m
         IN ProcessHits(m1, choices (-) SetToBag({h}), by_player)

\* the asteroid at which the loop stops: it is scored before its hit raises
RaisingHit(m, plan) ==
    LET by_player == AnyRaises(HitAsteroids(plan.by_player))
        from == HitAsteroids(IF by_player THEN plan.by_player ELSE plan.by_enemies)
        ga == CHOOSE ga \in BagToSet(from) : Raises(ga)
        score_gain == IF by_player THEN BASE_SCORE \div ga.state ELSE 0
    IN [m EXCEPT !.score = m.score + score_gain,
                 !.extra_life_tracker = m.extra_life_tracker + score_gain,
                 !.exc = hit(FullAsteroid(ga), VELOCITY_SCALE_NUM, VELOCITY_SCALE_DEN,
                             MIN_BROKEN_ASTEROIDS, SomeDraw(MIN_BROKEN_ASTEROIDS)).raised]

CheckAsteroidCollisions(m, plan) ==
    LET collided == [m EXCEPT !.asteroids = (m.asteroids (-) HitAsteroids(plan.by_player))
                                              (-) HitAsteroids(plan.by_enemies),
                              !.shots = m.shots (-) plan.shots,
                              !.enemy_shots = m.enemy_shots (-) plan.enemy_shots]
        m1 == ProcessHits(ProcessHits(collided, plan.by_player, TRUE), plan.by_enemies, FALSE)
    IN IF AnyRaises(HitAsteroids(plan.by_player) (+) HitAsteroids(plan.by_enemies))
       THEN RaisingHit(m1, plan) ELSE m1

(***************************************************************************)
(* The sprite updates of utility.draw_all, group after group: players,     *)
(* enemies, asteroids, shots, enemy_shots.  player_rect says whether the   *)
(* caller passes the ship's rect; coincide says whether a SMALL enemy's     *)
(* rect has the origin of the ship's, in which case normalize() raises.    *)
(***************************************************************************)
\* shots that are only removed once their age exceeds the lifespan
RECURSIVE AgeShotsLate(_, _, _)
AgeShotsLate(shots, delta_time, lifespan) ==
    IF shots = EmptyBag THEN EmptyBag
    ELSE LET lifetime == CHOOSE s \in BagToSet(shots) : TRUE
             rest == AgeShotsLate(shots (-) SetToBag({lifetime}), delta_time, lifespan)
         IN IF lifetime + delta_time > lifespan THEN rest
            ELSE SetToBag({lifetime + delta_time}) (+) rest

\* Shot.update of every shot of a group, each shot being its _lifetime
RECURSIVE AgeShots(_, _, _)
AgeShots(shots, delta_time, lifespan) ==
    IF shots = EmptyBag THEN EmptyBag
    ELSE LET lifetime == CHOOSE s \in BagToSet(shots) : TRUE
             rest == AgeShots(shots (-) SetToBag({lifetime}), delta_time, lifespan)
         IN IF lifetime + delta_time >= lifespan THEN rest
            ELSE SetToBag({lifetime + delta_time}) (+) rest

UpdatePlayers(m, delta_time) ==
    LET dead_player == DeadPlayerUpdate(m.dead_player, delta_time)
        m1 == IF "player" \in m.players
              THEN [m EXCEPT !.player = PlayerUpdate(m.player, delta_time)] ELSE m
    IN IF "dead_player" \in m.players
       THEN [m1 EXCEPT !.dead_player = dead_player,
                       !.players = IF DeadPlayerDone(dead_player)
                                   THEN m.players \ {"dead_player"} ELSE m.players]
       ELSE m1

HasSmallEnemy(m) == \E i \in 1..Len(m.enemies) : m.enemies[i].state = SMALL

\* Enemy.update of every enemy when none raises
UpdateEnemies(m, player_rect) ==
    [m EXCEPT !.enemies = [i \in 1..Len(m.enemies) |->
                             IF m.enemies[i].state = SMALL /\ ~player_rect
                             THEN [m.enemies[i] EXCEPT !.primed = FALSE]
                             ELSE m.enemies[i]]]

UpdateShots(m, delta_time) ==
    [m EXCEPT !.shots = AgeShots(m.shots, delta_time, PLAYER_BULLET_LIFESPAN),
              !.enemy_shots = AgeShots(m.enemy_shots, delta_time, ENEMY_BULLET_LIFESPAN)]

draw_all(m, delta_time, player_rect, coincide) ==
    LET m1 == UpdatePlayers(m, delta_time)
    IN IF coincide THEN [m1 EXCEPT !.exc = "ValueError"]
       ELSE UpdateShots(UpdateEnemies(m1, player_rect), delta_time)

\* the values coincide can take
Coincidences(m, player_rect) ==
    IF player_rect /\ HasSmallEnemy(m) THEN BOOLEAN ELSE {FALSE}

\* Main.render
MainRender(m, delta_time) ==
    IF m.exc # "" \/ ~m.all_assets THEN {m}
    ELSE {draw_all(m, delta_time, TRUE, coincide) : coincide \in Coincidences(m, TRUE)}

(***************************************************************************)
(* Main.update, in the order of the code.  Each part is given the draws    *)
(* and overlaps it meets; the parts are chained in MainUpdate.  A frame in *)
(* progress is the record                                                  *)
(*   m            the Main object                                          *)
(*   e            the End object (End.setup is called from Main.update)    *)
(*   next_state   input_dict['next_state']                                 *)
(*   contact      what overlaps a sprite of the players group              *)
(*   hits         what the frame's projectiles destroyed: the asteroids    *)
(*                hit by shots of the ship (by_player) and by shots of     *)
(*                enemies only (by_enemies), the shots of the ship that    *)
(*                hit an asteroid, and the states of the enemies shot      *)
(***************************************************************************)
NoHits == [by_player |-> EmptyBag, by_enemies |-> EmptyBag, shots |-> EmptyBag,
           enemies |-> EmptyBag]

\* the states of the enemies with the indices of shot, as a bag
RECURSIVE EnemyStatesOf(_, _)
EnemyStatesOf(enemies, shot) ==
    IF shot = {} THEN EmptyBag
    ELSE LET i == CHOOSE i \in shot : TRUE
         IN SetToBag({enemies[i].state}) (+) EnemyStatesOf(enemies, shot \ {i})

\* from the top of update to _handle_input
UpdateInput(m, is_seen, input_dict, current_time, h) ==
    LET m1 == IF ~is_seen THEN FirstRender(m, current_time) ELSE m
        m2 == CheckPlayerControl(m1)
    IN HandleInput(m2, input_dict, m2.player_has_control, current_time, h)

\* an update that kills the ship whether it is vulnerable or not
UpdateShipUnprotected(m, e, next_state, current_time, c) ==
    LET v == CheckPlayerVulnerability(m)
        m2 == IF v.player.alive /\ (Colliding(c) \/ ~v.player.remains_alive)
              THEN KillPlayer(v, current_time) ELSE v
        m3 == IF /\ ~m2.player.alive
                 /\ ~m2.player_out_of_lives
                 /\ current_time - m2.player_hit_time >= PLAYER_DEATH_TIMER
              THEN RespawnPlayer(m2) ELSE m2
    IN [m |-> m3,
        e |-> IF m2.player_out_of_lives
              THEN EndSetup(m2.score, m2.player.lives, m2.level, current_time) ELSE e,
        next_state |-> IF m2.player_out_of_lives THEN "END" ELSE next_state,
        contact |-> c, hits |-> NoHits]

\* from _check_player_vulnerability to _respawn_player
UpdateShip(m, e, next_state, current_time, c) ==
    LET v == CheckPlayerVulnerability(m)
        m1 == IF v.player_is_vulnerable THEN CheckPlayerCollisions(v, c) ELSE v
        m2 == IF v.player_is_vulnerable /\ (Colliding(c) \/ ~v.player.remains_alive)
              THEN KillPlayer(m1, current_time) ELSE m1
        m3 == IF /\ ~m2.player.alive
                 /\ ~m2.player_out_of_lives
                 /\ current_time - m2.player_hit_time >= PLAYER_DEATH_TIMER
              THEN RespawnPlayer(m2) ELSE m2
    IN [m |-> m3,
        e |-> IF m2.player_out_of_lives
              THEN EndSetup(m2.score, m2.player.lives, m2.level, current_time) ELSE e,
        next_state |-> IF m2.player_out_of_lives THEN "END" ELSE next_state,
        contact |-> c, hits |-> NoHits]

\* _shoot_enemies and _spawn_enemy
UpdateEnemy(w, current_time, plan, gen) ==
    LET m1 == ShootEnemies(w.m, current_time, plan)
    IN [w EXCEPT !.m = IF EnemyDue(m1, current_time) THEN SpawnEnemy(m1, current_time, gen) ELSE m1,
                 !.hits.enemies = EnemyStatesOf(w.m.enemies, plan.enemies)]

\* from _check_asteroid_collisions to the return
UpdateField(w, current_time, plan) ==
    LET m1 == CheckAsteroidCollisions(w.m, plan)
        m2 == EnemyFire(LevelLogic(AddExtraLife(m1), current_time), current_time)
    IN [w EXCEPT !.m = IF m1.exc # "" THEN m1
                       ELSE IF w.next_state \notin {None, "MAIN"} THEN PrepareNextState(m2)
                       ELSE m2,
                 !.hits.by_player = HitAsteroids(plan.by_player),
                 !.hits.by_enemies = HitAsteroids(plan.by_enemies),
                 !.hits.shots = plan.shots]

\* the draws of Player.hyperspace that a frame can meet
HyperspaceDrawsOf(m, is_seen, input_dict) ==
    IF input_dict.player_hyperspace /\ (~is_seen \/ (m.player.alive /\ ~m.player.in_hyperspace))
    THEN HyperspaceDraws ELSE {[pos |-> "centre", roll |-> 0]}

\* the draws of _spawn_enemy that a frame can meet
EnemyStateGensOf(m, current_time, plan) ==
    IF EnemyDue(ShootEnemies(m, current_time, plan), current_time)
    THEN EnemyStateGens ELSE {0}

\* the overlaps that the environment E lets happen
ContactsOf(m, E) ==
    {c \in Contacts(m) : /\ c.asteroid => "asteroid" \in E.touch
                         /\ c.enemy => "enemy" \in E.touch
                         /\ c.enemy_shots # EmptyBag => "enemy_shots" \in E.touch}

EnemyPlansOf(m, E) ==
    IF "enemies" \in E.shoot THEN EnemyPlans(m) ELSE {[enemies |-> {}, shots |-> EmptyBag]}

AsteroidPlansOf(m, E) ==
    IF "asteroids" \in E.shoot
    THEN {plan \in AsteroidPlans(m) : plan.by_enemies # EmptyBag => "enemy_shots" \in E.shoot}
    ELSE {NoPlan}

\* the frames Main.update and Main.render can end with; the frames in
\* which the field would grow beyond MaxField are left out
MainFrames(m, e, is_seen, input_dict, current_time, delta_time, E) ==
    LET ms == {UpdateInput(m, is_seen, input_dict, current_time, h) :
                  h \in HyperspaceDrawsOf(m, is_seen, input_dict)}
        ws1 == UNION {{UpdateShip(m1, e, input_dict.next_state, current_time, c) :
                          c \in ContactsOf(m1, E)} : m1 \in ms}
        ws2 == UNION {UNION {{UpdateEnemy(w, current_time, plan, gen) :
                                 gen \in EnemyStateGensOf(w.m, current_time, plan)} :
                                 plan \in EnemyPlansOf(w.m, E)} : w \in ws1}
        ws3 == UNION {{UpdateField(w, current_time, plan) : plan \in AsteroidPlansOf(w.m, E)} : w \in ws2}
        ws4 == {w \in ws3 : BagCardinality(w.m.asteroids) <= MaxField}
    IN UNION {{[w EXCEPT !.m = r] : r \in MainRender(w.m, delta_time)} : w \in ws4}

(***************************************************************************)
(* One frame: StateMachine.main_loop calls get_input, update and render of *)
(* the current state and then switches to the state update returned.  A    *)
(* None ends the program: main_loop returns False to its caller.  An       *)
(* exception ends it as well, before the switch.                           *)
(*                                                                         *)
(* frame is the record of the last frame: the state that ran it, its       *)
(* input, the overlap of the ship, and whether _first_render ran.  An      *)
(* environment E bounds the inputs:                                        *)
(*   menu_events, main_events   the batches of events                      *)
(*   keys                       the sets of keys held                      *)
(*   touch                      what may overlap the ship, among           *)
(*                              "asteroid", "enemy", "enemy_shots"         *)
(*   shoot                      what the ship's shots may overlap, among   *)
(*                              "asteroids", "enemies", and "enemy_shots"  *)
(*                              when the shots of enemies may overlap      *)
(*                              asteroids too                              *)
(*   record                     whether frame keeps the events and keys    *)
(*   audit                      whether frame keeps the hits               *)
(*                              and killed_at, the time of the last frame  *)
(*                              of the session in which a shot of the ship *)
(*                              destroyed an enemy (-1 if none)            *)
(*   ticks                      the number of frames                       *)
(***************************************************************************)
MainEvents == {"QUIT", "K_ESCAPE", "K_LSHIFT", "K_SPACE", "KEYUP_K_UP"}

Keys == {"K_UP", "K_LEFT", "K_RIGHT"}

NoFrame ==
    [state |-> None, events |-> << >>, keys |-> {}, mouse |-> "",
     contact |-> NoContact, first_render |-> FALSE, hits |-> NoHits,
     killed_at |-> -1]

Frame(state, events, keys, mouse, contact, first_render, hits, E) ==
    [state |-> state, events |-> IF E.record THEN events ELSE << >>,
     keys |-> IF E.record THEN keys ELSE {}, mouse |-> IF E.record THEN mouse ELSE "",
     contact |-> contact, first_render |-> first_render,
     hits |-> IF E.audit THEN hits ELSE NoHits, killed_at |-> -1]

HasClick(events) == \E i \in 1..Len(events) : events[i] = "MOUSEBUTTONDOWN"

\* where the mouse can be: over one of the buttons or over none
Mice(buttons, events) == IF HasClick(events) THEN DOMAIN buttons \cup {""} ELSE {""}

\* a switch that leaves the seen flag of the state set
SwitchKeepsSeen(state, next_state, events, mouse, E) ==
    /\ now' = now + FrameMs
    /\ current_state' = IF next_state # None THEN next_state ELSE current_state
    /\ running' = IF next_state # None THEN "running" ELSE "terminated"
    /\ seen' = [seen EXCEPT ![state] = TRUE]
    /\ frame' = Frame(state, events, {}, mouse, NoContact, ~seen[state], NoHits, E)

\* the end of main_loop for a state whose update returned next_state
Switch(state, next_state, events, mouse, E) ==
    /\ now' = now + FrameMs
    /\ current_state' = IF next_state # None THEN next_state ELSE current_state
    /\ running' = IF next_state # None THEN "running" ELSE "terminated"
    /\ seen' = [seen EXCEPT ![state] = next_state \in {None, state}]
    /\ frame' = Frame(state, events, {}, mouse, NoContact, ~seen[state], NoHits, E)

CanTick(state, E) ==
    current_state = state /\ running = "running" /\ now < E.ticks * FrameMs

TickIntro(E) ==
    /\ CanTick("INTRO", E)
    /\ \E events \in E.menu_events : \E mouse \in Mice(IntroButtons, events) :
          Switch("INTRO", IntroGetInput(events, mouse).next_state, events, mouse, E)
    /\ UNCHANGED <<main, endst, hitVars, unitVars>>

TickControls(E) ==
    /\ CanTick("CONTROLS", E)
    /\ \E events \in E.menu_events : \E mouse \in Mice(ControlsButtons, events) :
          Switch("CONTROLS", ControlsGetInput(events, mouse).next_state, events, mouse, E)
    /\ UNCHANGED <<main, endst, hitVars, unitVars>>

TickOptions(E) ==
    /\ CanTick("OPTIONS", E)
    /\ \E events \in E.menu_events : \E mouse \in Mice(OptionsButtons, events) :
          Switch("OPTIONS", OptionsGetInput(events, mouse).next_state, events, mouse, E)
    /\ UNCHANGED <<main, endst, hitVars, unitVars>>

\* End.update: the menu is shown TIME_TO_START after setup
EndUpdate(e, current_time) ==
    IF ~e.menu_showing /\ current_time - e.start_time >= TIME_TO_START
    THEN [e EXCEPT !.menu_showing = TRUE] ELSE e

\* End.render: the groups handed over by Main are still updated, without
\* the ship's rect
EndRender(m, delta_time) == draw_all(m, delta_time, FALSE, FALSE)

TickEnd(E) ==
    /\ CanTick("END", E)
    /\ \E events \in E.menu_events : \E mouse \in Mice(EndButtons, events) :
          LET next_state == EndGetInput(events, mouse).next_state
          IN /\ now' = now + FrameMs
             /\ current_state' = IF next_state # None THEN next_state ELSE current_state
             /\ running' = IF next_state # None THEN "running" ELSE "terminated"
             /\ frame' = Frame("END", events, {}, mouse, NoContact, FALSE, NoHits, E)
    /\ endst' = EndUpdate(endst, now + FrameMs)
    /\ main' = EndRender(main, FrameMs)
    /\ UNCHANGED <<seen, hitVars, unitVars>>

TickMain(E) ==
    /\ CanTick("MAIN", E)
    /\ \E events \in E.main_events, keys \in E.keys :
          \E w \in MainFrames(main, endst, seen["MAIN"], MainGetInput(events, keys),
                              now + FrameMs, FrameMs, E) :
             /\ main' = w.m
             /\ endst' = w.e
             /\ now' = now + FrameMs
             /\ frame' = [Frame("MAIN", events, keys, "", w.contact, ~seen["MAIN"], w.hits, E)
                             EXCEPT !.killed_at = IF E.audit /\ w.hits.enemies # EmptyBag
                                                  THEN now + FrameMs ELSE frame.killed_at]
             /\ IF w.m.exc # ""
                THEN /\ running' = "crashed"
                     /\ current_state' = current_state
                     /\ seen' = [seen EXCEPT !["MAIN"] = TRUE]
                ELSE /\ running' = IF w.next_state # None THEN "running" ELSE "terminated"
                     /\ current_state' = IF w.next_state # None THEN w.next_state
                                         ELSE current_state
                     /\ seen' = [seen EXCEPT !["MAIN"] = w.next_state \in {None, "MAIN"}]
    /\ UNCHANGED <<hitVars, unitVars>>

(***************************************************************************)
(* Single functions, each under a specification of its own (further down): *)
(* Gun.fire, _check_collide and Main._add_extra_life.                      *)
(*   the_gun     a Gun                                                     *)
(*   gun_calls   its fire rate (the interval between two shots in ms), the *)
(*               calls of fire made on it, each with its current_time and  *)
(*               whether it returned a Shot, and the number of times       *)
(*               shot_channel.play was called                              *)
(*   the_rect    a rect and its area: newpos is the argument of the last   *)
(*               call of _check_collide and rect the rect it returned      *)
(*   life        before is the Main object (its tracker and the ship's     *)
(*               lives) when _add_extra_life is called, m the object after *)
(*   vector      a call of random_angle_vector: its min_angle and its      *)
(*               direction, in 1/10, and where the call is: "idle", in     *)
(*               the "loop", or "returned"                                 *)
(*   aim         the score given to the last Enemy.update of a SMALL enemy *)
(*               and the rotate_amount it computed, a fraction of degrees  *)
(*   board       highscores.txt (whether it exists, and its lines), the    *)
(*               last call of Highscores(new_score, ...): the file before  *)
(*               it, its highscores list, new_highscore and                *)
(*               new_highscore_position, and lost, the highest final score *)
(*               dropped or not admitted so far (-1 if none)               *)
(*   spot        a call of Enemy.spawn: the centre of the ship's rect, the *)
(*               min_player_distance it is given, the position drawn, the  *)
(*               square of its distance from the ship, and where the call  *)
(*               is: "idle", in the "loop" of random_position, or          *)
(*               "returned" with position the place of the new enemy       *)
(*   body        a Player or a DeadPlayer around a call of _calc_velocity: *)
(*               its velocity, velocity_direction and the drag computed,   *)
(*               and before, the object and the delta_time of the call     *)
(*   ledger      the Main object of a session of which only the scoring    *)
(*               and the deaths are played, the number of times            *)
(*               _kill_player was called, and the score of the last frame  *)
(***************************************************************************)
\* Gun.fire: the number of calls of shot_channel.play
GunFireCues(gun, fire_rate, current_time) ==
    IF GunFires(gun, fire_rate, current_time) THEN 1 ELSE 0

\* pygame.Rect: bottom and right
Bottom(rect) == rect.top + rect.height

Right(rect) == rect.left + rect.width

\* pygame.Rect.move
Move(rect, x, y) == [rect EXCEPT !.left = rect.left + x, !.top = rect.top + y]

\* a _check_collide that corrects each axis by itself
CheckCollideBothAxes(newpos, area) ==
    LET v == IF Bottom(newpos) < 0 THEN [newpos EXCEPT !.top = area.height]
             ELSE IF newpos.top > area.height THEN [newpos EXCEPT !.top = 0 - newpos.height]
             ELSE newpos
    IN IF Right(v) < 0 THEN [v EXCEPT !.left = area.width]
       ELSE IF v.left > area.width THEN [v EXCEPT !.left = 0 - v.width]
       ELSE v

\* _check_collide: assigning top, bottom, left or right moves the rect
CheckCollide(newpos, area) ==
    IF Bottom(newpos) < 0 THEN [newpos EXCEPT !.top = area.height]
    ELSE IF newpos.top > area.height THEN [newpos EXCEPT !.top = 0 - newpos.height]
    ELSE IF Right(newpos) < 0 THEN [newpos EXCEPT !.left = area.width]
    ELSE IF newpos.left > area.width THEN [newpos EXCEPT !.left = 0 - newpos.width]
    ELSE newpos

\* the part of the Main object that _add_extra_life reads and writes, as
\* _first_render leaves it
LifeObject == [extra_life_tracker |-> 0, player |-> [lives |-> STARTING_LIVES]]

NoGun ==
    /\ the_gun = Gun
    /\ gun_calls = [fire_rate |-> 0, log |-> << >>, cues |-> 0]

NoRect ==
    the_rect = [calls |-> 0, area |-> [width |-> 0, height |-> 0],
                newpos |-> [left |-> 0, top |-> 0, width |-> 0, height |-> 0],
                rect |-> [left |-> 0, top |-> 0, width |-> 0, height |-> 0]]

NoLife == life = [before |-> LifeObject, m |-> LifeObject]

NoVector == vector = [min_angle |-> 0, direction |-> [x |-> 0, y |-> 0], pc |-> "idle"]

NoAim == aim = [called |-> FALSE, score |-> 0, rotate_amount |-> [num |-> 0, den |-> 1]]

NoFile == [exists |-> FALSE, lines |-> << >>]

NoBoard ==
    board = [file |-> NoFile, lost |-> -1,
             last |-> [called |-> FALSE, new_score |-> 0, before |-> NoFile,
                       highscores |-> << >>, new_highscore |-> FALSE,
                       new_highscore_position |-> -1]]

NoSpot ==
    spot = [pc |-> "idle", avoid |-> [centerx |-> 0, centery |-> 0], min_player_distance |-> 0,
            position |-> [x |-> 0, y |-> 0], distance2 |-> 0]

NoBody ==
    body = [pc |-> "idle", kind |-> "", velocity |-> [x |-> 0, y |-> 0],
            velocity_direction |-> [x |-> 0, y |-> 0], drag |-> 0, before |-> << >>]

NoLedger == ledger = [m |-> MainObject, deaths |-> 0, gain |-> 0]

NoUnit == NoGun /\ NoRect /\ NoLife /\ NoVector /\ NoAim /\ NoBoard /\ NoSpot /\ NoBody /\ NoLedger

\* StateMachine.__init__ and the constructors of the five states
GameInit ==
    /\ current_state = "INTRO"
    /\ running = "running"
    /\ seen = [s \in SeenStates |-> FALSE]
    /\ now = 0
    /\ main = MainObject
    /\ endst = EndObject
    /\ frame = NoFrame

NoField ==
    /\ hfield = EmptyBag
    /\ hlast = [calls |-> 0, self |-> Asteroid6(0, 0, 0, 0, "away", PyChannel("explosion_asteroid")),
                number_to_spawn |-> 0, result |-> NoHitResult]

Init == GameInit /\ NoField /\ NoUnit

(***************************************************************************)
(* Spec: the state machine.  The menus read every batch of at most         *)
(* MaxEvents events; in Main the player only quits or leaves, the ship     *)
(* drifts into asteroids and nothing is fired.                             *)
(***************************************************************************)
Env ==
    [menu_events |-> Batches(MenuEvents, MaxEvents),
     main_events |-> Batches({"QUIT", "K_ESCAPE"}, MaxEvents),
     keys |-> {{}}, touch |-> {"asteroid"}, shoot |-> {},
     record |-> TRUE, audit |-> FALSE, ticks |-> MaxTicks]

Next ==
    \/ TickIntro(Env)
    \/ TickControls(Env)
    \/ TickOptions(Env)
    \/ TickMain(Env)
    \/ TickEnd(Env)

Spec == Init /\ [][Next]_vars

(***************************************************************************)
(* SpecPlay: a session in which the player starts the game at once and     *)
(* fires in every frame; the shots may hit asteroids and asteroids the     *)
(* ship.                                                                   *)
(***************************************************************************)
EnvPlay ==
    [menu_events |-> {<<"K_RETURN">>},
     main_events |-> {<<"K_SPACE">>},
     keys |-> {{}}, touch |-> {"asteroid"}, shoot |-> {"asteroids"},
     record |-> FALSE, audit |-> FALSE, ticks |-> MaxTicks]

NextPlay ==
    \/ TickIntro(EnvPlay)
    \/ TickMain(EnvPlay)
    \/ TickEnd(EnvPlay)

SpecPlay == Init /\ [][NextPlay]_vars

(***************************************************************************)
(* SpecShip: a session in which the player starts the game at once and     *)
(* steers: thrust and left turn, hyperspace jumps, nothing is fired;       *)
(* asteroids may hit the ship.                                             *)
(***************************************************************************)
EnvShip ==
    [menu_events |-> {<<"K_RETURN">>},
     main_events |-> {<< >>, <<"K_LSHIFT">>},
     keys |-> {{}, {"K_UP", "K_LEFT"}}, touch |-> {"asteroid"}, shoot |-> {},
     record |-> TRUE, audit |-> FALSE, ticks |-> MaxTicks]

NextShip ==
    \/ TickIntro(EnvShip)
    \/ TickMain(EnvShip)
    \/ TickEnd(EnvShip)

SpecShip == Init /\ [][NextShip]_vars

\* the fragmentation algorithm alone, applied to a field of asteroids
InitHit == GameInit /\ HitInit /\ NoUnit

NextHit == HitStep /\ UNCHANGED <<gameVars, unitVars>>

SpecHit == InitHit /\ [][NextHit]_vars

(***************************************************************************)
(* SpecFrag: Asteroid.hit for every number_to_spawn from 1 to MaxSpawn and *)
(* every outcome of its image draws, on an asteroid of a wave and then on  *)
(* the asteroids it returned, MaxFragCalls calls in all.                   *)
(***************************************************************************)
FragCounts == 1..MaxSpawn

FragStep ==
    /\ hlast.calls < MaxFragCalls
    /\ hlast.result.raised = ""
    /\ \E self \in BagToSet(hfield), n \in FragCounts :
         \E d \in HitDraws(n) :
            LET r == hit(self, VELOCITY_SCALE_NUM, VELOCITY_SCALE_DEN, n, d)
            IN /\ hfield' = (hfield (-) SetToBag({self})) (+) SeqToBag(r.list)
               /\ hlast' = [calls |-> hlast.calls + 1, self |-> self,
                            number_to_spawn |-> n, result |-> r]

NextFrag == FragStep /\ UNCHANGED <<gameVars, unitVars>>

SpecFrag == InitHit /\ [][NextFrag]_vars

(***************************************************************************)
(* SpecGun: a new gun with one of the fire rates FireRates (the interval   *)
(* 1000 / fire rate that Main passes, in ms) and MaxShots calls of fire at *)
(* clock times that do not decrease, from 0 to MaxClock.                   *)
(***************************************************************************)
FireRates == {2, 3}

GunInit ==
    /\ the_gun = Gun
    /\ \E fire_rate \in FireRates :
          gun_calls = [fire_rate |-> fire_rate, log |-> << >>, cues |-> 0]

\* the time of the last call, 0 before the first
LastCall == IF gun_calls.log = << >> THEN 0
            ELSE gun_calls.log[Len(gun_calls.log)].current_time

GunStep ==
    /\ Len(gun_calls.log) < MaxShots
    /\ \E current_time \in LastCall..MaxClock :
          /\ the_gun' = GunFire(the_gun, gun_calls.fire_rate, current_time)
          /\ gun_calls' =
                [gun_calls EXCEPT
                    !.log = Append(@, [current_time |-> current_time,
                                       shot |-> GunFires(the_gun, gun_calls.fire_rate,
                                                         current_time)]),
                    !.cues = @ + GunFireCues(the_gun, gun_calls.fire_rate, current_time)]

InitGun == GameInit /\ NoField /\ GunInit /\ NoRect /\ NoLife /\ NoVector /\ NoAim /\ NoBoard /\ NoSpot /\ NoBody /\ NoLedger

NextGun == GunStep /\ UNCHANGED <<gameVars, hitVars, the_rect, life, vector, aim, board, spot, body, ledger>>

SpecGun == InitGun /\ [][NextGun]_vars

(***************************************************************************)
(* SpecWrap: a sprite's rect inside its area is moved MaxMoves times by at *)
(* most MaxStep pixels along each axis, and every move is followed by      *)
(* _check_collide, as in the update methods of the sprites.                *)
(***************************************************************************)
Areas == {[width |-> 3, height |-> 2]}

RectSizes == {1, 2}

RectInit ==
    \E area \in Areas, width \in RectSizes, height \in RectSizes :
       \E left \in 0..(area.width - width), top \in 0..(area.height - height) :
          LET rect == [left |-> left, top |-> top, width |-> width, height |-> height]
          IN the_rect = [calls |-> 0, area |-> area, newpos |-> rect, rect |-> rect]

WrapStep ==
    /\ the_rect.calls < MaxMoves
    /\ \E x \in (0 - MaxStep)..MaxStep, y \in (0 - MaxStep)..MaxStep :
          LET newpos == Move(the_rect.rect, x, y)
          IN the_rect' = [the_rect EXCEPT !.calls = @ + 1, !.newpos = newpos,
                                          !.rect = CheckCollide(newpos, the_rect.area)]

InitWrap == GameInit /\ NoField /\ NoGun /\ RectInit /\ NoLife /\ NoVector /\ NoAim /\ NoBoard /\ NoSpot /\ NoBody /\ NoLedger

NextWrap == WrapStep /\ UNCHANGED <<gameVars, hitVars, the_gun, gun_calls, life, vector, aim, board, spot, body, ledger>>

SpecWrap == InitWrap /\ [][NextWrap]_vars

(***************************************************************************)
(* SpecLife: the scoring of a session.  Each step is one frame of Main     *)
(* that scores: the gain of a destroyed asteroid or enemy is added to the  *)
(* tracker and _add_extra_life is called, until MaxExtraLives lives were   *)
(* granted.                                                                *)
(***************************************************************************)
ScoreGains ==
    {BASE_SCORE \div state : state \in 1..DEFAULT_ASTEROID_STATE}
       \cup {BASE_SCORE * SMALL, BASE_SCORE * BIG}

LifeStep ==
    /\ life.m.player.lives < STARTING_LIVES + MaxExtraLives
    /\ \E score_gain \in ScoreGains :
          LET m1 == [life.m EXCEPT !.extra_life_tracker = @ + score_gain]
          IN life' = [before |-> m1, m |-> AddExtraLife(m1)]

InitLife == GameInit /\ NoField /\ NoGun /\ NoRect /\ NoLife /\ NoVector /\ NoAim /\ NoBoard /\ NoSpot /\ NoBody /\ NoLedger

NextLife == LifeStep /\ UNCHANGED <<gameVars, hitVars, the_gun, gun_calls, the_rect, vector, aim, board, spot, body, ledger>>

SpecLife == InitLife /\ [][NextLife]_vars

(***************************************************************************)
(* SpecScore: a session in which the player starts the game at once and    *)
(* fires in every frame; the shots of the ship may hit asteroids and       *)
(* enemies, the shots of enemies may hit asteroids and the ship, and frame *)
(* keeps what the projectiles of the frame destroyed.  The first enemy     *)
(* comes TIME_BETWEEN_ENEMY_SPAWNS after the first wave, so the ship       *)
(* cannot lose its lives within MaxTicks frames and End is not reached.    *)
(***************************************************************************)
EnvScore ==
    [menu_events |-> {<<"K_RETURN">>},
     main_events |-> {<<"K_SPACE">>},
     keys |-> {{}}, touch |-> {"enemy_shots"}, shoot |-> {"asteroids", "enemies", "enemy_shots"},
     record |-> FALSE, audit |-> TRUE, ticks |-> MaxTicks]

NextScore ==
    \/ TickIntro(EnvScore)
    \/ TickMain(EnvScore)

SpecScore == Init /\ [][NextScore]_vars

(***************************************************************************)
(* SpecAngle: utility.random_angle_vector, the direction that              *)
(* Asteroid.spawn and Enemy.spawn give to a new asteroid or enemy.  The    *)
(* call starts with the vector (0, 0); every pass of its loop draws x and  *)
(* y with random.uniform(-1.0, 1.0), here in steps of 1/10.                *)
(***************************************************************************)
Coordinates == -10..10

MinAngles == {3, 5}

Abs(x) == IF x < 0 THEN 0 - x ELSE x

\* the condition of the while loop
AngleLoops(v) ==
    Abs(v.direction.x) < v.min_angle /\ Abs(v.direction.y) < v.min_angle

AngleCall ==
    /\ vector.pc \in {"idle", "returned"}
    /\ \E min_angle \in MinAngles :
          vector' = [min_angle |-> min_angle, direction |-> [x |-> 0, y |-> 0], pc |-> "loop"]

AngleDraw ==
    /\ vector.pc = "loop" /\ AngleLoops(vector)
    /\ \E x \in Coordinates, y \in Coordinates :
          vector' = [vector EXCEPT !.direction = [x |-> x, y |-> y]]

AngleReturn ==
    /\ vector.pc = "loop" /\ ~AngleLoops(vector)
    /\ vector' = [vector EXCEPT !.pc = "returned"]

NextAngle ==
    /\ AngleCall \/ AngleDraw \/ AngleReturn
    /\ UNCHANGED <<gameVars, hitVars, the_gun, gun_calls, the_rect, life, aim, board, spot, body, ledger>>

SpecAngle == Init /\ [][NextAngle]_vars

(***************************************************************************)
(* SpecAim: the inaccuracy of a SMALL enemy's aim in Enemy.update, for the *)
(* scores that Main.render can pass.  A fraction is the record [num, den]. *)
(***************************************************************************)
\* utility.normalize
normalize(x, x_min, x_max) == [num |-> x - x_min, den |-> x_max - x_min]

\* utility.lerp, for whole min and max: (1 - t) * min + t * max
lerp(min, max, t) == [num |-> (t.den - t.num) * min + t.num * max, den |-> t.den]

\* Enemy.update: rotate_amount
RotateAmount(score) ==
    lerp(ENEMY_MAX_INNACURACY_ANGLE, ENEMY_MIN_INNACURACY_ANGLE,
         normalize(score, 0, ENEMY_MAX_DIFFICULTY_AT_SCORE))

AimScores == {100 * k : k \in 0..MaxAimSteps}

AimStep ==
    \E score \in AimScores :
       aim' = [called |-> TRUE, score |-> score, rotate_amount |-> RotateAmount(score)]

NextAim ==
    /\ AimStep
    /\ UNCHANGED <<gameVars, hitVars, the_gun, gun_calls, the_rect, life, vector, board, spot, body, ledger>>

SpecAim == Init /\ [][NextAim]_vars

(***************************************************************************)
(* SpecInput: a session in which the player starts the game at once and    *)
(* uses every control of the ship: thrust and left turn, engine off, and   *)
(* hyperspace together with fire; asteroids may hit the ship and no shot   *)
(* hits anything.                                                          *)
(***************************************************************************)
EnvInput ==
    [menu_events |-> {<<"K_RETURN">>},
     main_events |-> {<< >>, <<"K_LSHIFT", "K_SPACE">>, <<"KEYUP_K_UP">>},
     keys |-> {{}, {"K_UP", "K_LEFT"}}, touch |-> {"asteroid"}, shoot |-> {},
     record |-> TRUE, audit |-> FALSE, ticks |-> MaxTicks]

NextInput ==
    \/ TickIntro(EnvInput)
    \/ TickMain(EnvInput)
    \/ TickEnd(EnvInput)

SpecInput == Init /\ [][NextInput]_vars

(***************************************************************************)
(* SpecBoard: assets.Highscores, built by End.setup at every game over.    *)
(* highscores.txt is missing or empty at first; every step is one game     *)
(* over with one of FinalScores.  A line of the file is the sequence of    *)
(* its characters, without the newline.                                    *)
(***************************************************************************)
DigitChars == <<"0", "1", "2", "3", "4", "5", "6", "7", "8", "9">>

IsDigit(c) == \E d \in 1..Len(DigitChars) : DigitChars[d] = c

DigitValue(c) == (CHOOSE d \in 1..Len(DigitChars) : DigitChars[d] = c) - 1

\* str(n) for n >= 0
RECURSIVE Str(_)
Str(n) ==
    IF n < 10 THEN <<DigitChars[n + 1]>>
    ELSE Str(n \div 10) \o <<DigitChars[(n % 10) + 1]>>

\* int(s) for a string of digits; the empty string raises ValueError
RECURSIVE int(_)
int(s) ==
    IF Len(s) = 1 THEN DigitValue(s[1])
    ELSE 10 * int(SubSeq(s, 1, Len(s) - 1)) + DigitValue(s[Len(s)])

\* the longest run of digits of line from index i on
RECURSIVE DigitRun(_, _)
DigitRun(line, i) ==
    IF i <= Len(line) /\ IsDigit(line[i]) THEN <<line[i]>> \o DigitRun(line, i + 1)
    ELSE << >>

\* re.compile(r'([0-9]\. )([0-9]*)').search(line): the indices at which the
\* pattern matches; search takes the first
Matches(line) ==
    {i \in 1..(Len(line) - 2) : IsDigit(line[i]) /\ line[i + 1] = "." /\ line[i + 2] = " "}

FirstMatch(line) == CHOOSE i \in Matches(line) : \A j \in Matches(line) : i <= j

\* group(2) of the match
ScoreText(line) == DigitRun(line, FirstMatch(line) + 3)

\* the loop over f.readlines(): the scores of the lines that match
RECURSIVE ReadScores(_)
ReadScores(lines) ==
    IF lines = << >> THEN << >>
    ELSE IF Matches(lines[1]) = {} THEN ReadScores(Tail(lines))
    ELSE <<int(ScoreText(lines[1]))>> \o ReadScores(Tail(lines))

\* int() raises on a line that matches with an empty group(2)
ReadRaises(lines) ==
    \E k \in 1..Len(lines) : Matches(lines[k]) # {} /\ ScoreText(lines[k]) = << >>

\* list.insert(i, x) with the 1-based index i
InsertAt(list, i, x) == SubSeq(list, 1, i - 1) \o <<x>> \o SubSeq(list, i, Len(list))

\* a pop that removes the first entry
PopFirst(list) == Tail(list)

\* list.pop()
Pop(list) == SubSeq(list, 1, Len(list) - 1)

\* sorted(list, reverse=True) and list.sort(reverse=True)
RECURSIVE SortedReverse(_)
SortedReverse(list) ==
    IF list = << >> THEN << >>
    ELSE LET rest == SortedReverse(Tail(list))
             above == {i \in 1..Len(rest) : rest[i] >= list[1]}
         IN InsertAt(rest, Cardinality(above) + 1, list[1])

\* the 0-based indices i of enumerate(sorted(highscores, reverse=True)) at
\* which the loop's condition holds; the loop breaks at the first
BeatenAt(highscores, new_score, strictly) ==
    LET ranked == SortedReverse(highscores)
    IN {i \in 0..(Len(ranked) - 1) :
           new_score > 0 /\ IF strictly THEN new_score > ranked[i + 1]
                            ELSE new_score >= ranked[i + 1]}

First(indices) == CHOOSE i \in indices : \A j \in indices : i <= j

\* a full list that takes the new score without giving up an entry
FullListKeepsAll(highscores, new_score) ==
    LET beaten == BeatenAt(highscores, new_score, TRUE)
    IN IF beaten # {}
       THEN [highscores |-> InsertAt(highscores, First(beaten) + 1, new_score),
             new_highscore_position |-> First(beaten), new_highscore |-> TRUE]
       ELSE [highscores |-> highscores, new_highscore_position |-> -1,
             new_highscore |-> FALSE]

\* Highscores.__init__: the branch len(highscores) >= 5
FullList(highscores, new_score) ==
    LET beaten == BeatenAt(highscores, new_score, TRUE)
    IN IF beaten # {}
       THEN [highscores |-> Pop(InsertAt(highscores, First(beaten) + 1, new_score)),
             new_highscore_position |-> First(beaten), new_highscore |-> TRUE]
       ELSE [highscores |-> highscores, new_highscore_position |-> -1,
             new_highscore |-> FALSE]

\* Highscores.__init__: the branches of a list with fewer than 5 entries
OpenList(highscores, new_score) ==
    LET beaten == BeatenAt(highscores, new_score, FALSE)
    IN IF ~(new_score > 0)
       THEN [highscores |-> highscores, new_highscore_position |-> -1,
             new_highscore |-> FALSE]
       ELSE IF beaten # {}
       THEN [highscores |-> InsertAt(highscores, First(beaten) + 1, new_score),
             new_highscore_position |-> First(beaten), new_highscore |-> TRUE]
       ELSE [highscores |-> Append(highscores, new_score),
             new_highscore_position |-> Len(highscores), new_highscore |-> TRUE]

\* Highscores.__init__: the except branch, highscores.txt is missing
MissingFile(new_score) ==
    [highscores |-> <<new_score>>, new_highscore_position |-> 0, new_highscore |-> TRUE]

\* the line that the last loop writes for the entry with 0-based index i
Line(i, score) == Str(i + 1) \o <<".", " ">> \o Str(score)

WriteScores(highscores) ==
    [exists |-> TRUE, lines |-> [k \in 1..Len(highscores) |-> Line(k - 1, highscores[k])]]

\* Highscores(new_score, ...) with the file as it is found: the object's
\* list and outcome, and the file as it is left
Highscores(new_score, file) ==
    LET read == ReadScores(file.lines)
        r == IF ~file.exists THEN MissingFile(new_score)
             ELSE IF Len(read) >= 5 THEN FullList(read, new_score)
             ELSE OpenList(read, new_score)
        highscores == SortedReverse(r.highscores)
    IN [highscores |-> highscores, new_highscore |-> r.new_highscore,
        new_highscore_position |-> r.new_highscore_position,
        file |-> WriteScores(highscores)]

Max(a, b) == IF a > b THEN a ELSE b

\* the highest score among lost so far and the ones the call gave up
LostAfter(lost, before, new_score, after) ==
    LET gone == (SeqToBag(before) (+) SetToBag({new_score})) (-) SeqToBag(after)
    IN IF gone = EmptyBag THEN lost
       ELSE Max(lost, CHOOSE s \in BagToSet(gone) : \A t \in BagToSet(gone) : s >= t)

EmptyFile == [exists |-> TRUE, lines |-> << >>]

FinalScores == {0, 50, 75, 150, 1025}

BoardInit ==
    \E file \in {NoFile, EmptyFile} :
       board = [file |-> file, lost |-> -1,
                last |-> [called |-> FALSE, new_score |-> 0, before |-> file,
                          highscores |-> << >>, new_highscore |-> FALSE,
                          new_highscore_position |-> -1]]

GameOverStep ==
    /\ ~ReadRaises(board.file.lines)
    /\ \E new_score \in FinalScores :
          LET h == Highscores(new_score, board.file)
          IN board' = [file |-> h.file,
                       lost |-> LostAfter(board.lost, ReadScores(board.file.lines),
                                          new_score, h.highscores),
                       last |-> [called |-> TRUE, new_score |-> new_score,
                                 before |-> board.file, highscores |-> h.highscores,
                                 new_highscore |-> h.new_highscore,
                                 new_highscore_position |-> h.new_highscore_position]]

InitBoard ==
    GameInit /\ NoField /\ NoGun /\ NoRect /\ NoLife /\ NoVector /\ NoAim /\ BoardInit /\ NoSpot /\ NoBody /\ NoLedger

NextBoard ==
    /\ GameOverStep
    /\ UNCHANGED <<gameVars, hitVars, the_gun, gun_calls, the_rect, life, vector, aim, spot, body, ledger>>

SpecBoard == InitBoard /\ [][NextBoard]_vars

(***************************************************************************)
(* SpecEnemy: a session long enough for a second enemy and for the first   *)
(* enemy of the second level.  The player starts the game at once and      *)
(* fires in every frame; the shots may hit asteroids and enemies, nothing  *)
(* hits the ship.                                                          *)
(***************************************************************************)
EnvEnemy ==
    [menu_events |-> {<<"K_RETURN">>},
     main_events |-> {<<"K_SPACE">>},
     keys |-> {{}}, touch |-> {}, shoot |-> {"asteroids", "enemies"},
     record |-> FALSE, audit |-> TRUE, ticks |-> MaxEnemyTicks]

NextEnemy ==
    \/ TickIntro(EnvEnemy)
    \/ TickMain(EnvEnemy)

SpecEnemy == Init /\ [][NextEnemy]_vars

(***************************************************************************)
(* SpecSpawn: Enemy.spawn as Main._spawn_enemy calls it, on a screen of    *)
(* ScreenWidth x ScreenHeight with the ship's rect centred anywhere on it. *)
(* _spawn_enemy passes ENEMY_SHOT_POWER where Enemy.spawn expects          *)
(* min_player_distance; the tunable is one of ShotPowers.  Distances are   *)
(* compared by their squares.                                              *)
(***************************************************************************)
ScreenWidth == 4

ScreenHeight == 4

MIN_ENEMY_DISTANCE == 2

ShotPowers == {1, 2, 3}

\* math.hypot(x_distance, y_distance), squared
Hypot2(position, avoid_rect) ==
    (position.x - avoid_rect.centerx) * (position.x - avoid_rect.centerx)
       + (position.y - avoid_rect.centery) * (position.y - avoid_rect.centery)

\* the condition of the while loop of random_position
PositionLoops(s) == s.distance2 < s.min_player_distance * s.min_player_distance

\* _spawn_enemy calls Enemy.spawn, which calls random_position: distance = 0
SpawnCall ==
    /\ spot.pc \in {"idle", "returned"}
    /\ \E centerx \in 0..ScreenWidth, centery \in 0..ScreenHeight, ENEMY_SHOT_POWER \in ShotPowers :
          spot' = [pc |-> "loop", avoid |-> [centerx |-> centerx, centery |-> centery],
                   min_player_distance |-> ENEMY_SHOT_POWER,
                   position |-> [x |-> 0, y |-> 0], distance2 |-> 0]

\* one pass of the loop of random_position
PositionDraw ==
    /\ spot.pc = "loop" /\ PositionLoops(spot)
    /\ \E position_x \in 0..ScreenWidth, position_y \in 0..ScreenHeight :
          LET position == [x |-> position_x, y |-> position_y]
          IN spot' = [spot EXCEPT !.position = position,
                                  !.distance2 = Hypot2(position, spot.avoid)]

\* Enemy.spawn: the switcher moves the position to an edge
ToEdge(position, switcher) ==
    IF switcher = 0 THEN [position EXCEPT !.x = 0]
    ELSE IF switcher = 1 THEN [position EXCEPT !.x = ScreenWidth]
    ELSE IF switcher = 2 THEN [position EXCEPT !.y = 0]
    ELSE [position EXCEPT !.y = ScreenHeight]

\* random_position returns and Enemy.spawn builds the enemy
SpawnReturn ==
    /\ spot.pc = "loop" /\ ~PositionLoops(spot)
    /\ \E switcher \in 0..3 :
          LET position == ToEdge(spot.position, switcher)
          IN spot' = [spot EXCEPT !.pc = "returned", !.position = position,
                                  !.distance2 = Hypot2(position, spot.avoid)]

NextSpawn ==
    /\ SpawnCall \/ PositionDraw \/ SpawnReturn
    /\ UNCHANGED <<gameVars, hitVars, the_gun, gun_calls, the_rect, life, vector, aim, board, body, ledger>>

SpecSpawn == Init /\ [][NextSpawn]_vars

(***************************************************************************)
(* SpecDrag: Player._calc_velocity and DeadPlayer._calc_velocity.  A       *)
(* number is a fraction [num, den] in lowest terms with den > 0, a vector  *)
(* a pair [x, y] of fractions.  The velocities given have a whole          *)
(* magnitude; the time step and the fluid density are fractions.           *)
(***************************************************************************)
RECURSIVE GCD(_, _)
GCD(a, b) == IF b = 0 THEN a ELSE GCD(b, a % b)

Frac(num, den) ==
    LET n == IF den < 0 THEN 0 - num ELSE num
        d == IF den < 0 THEN 0 - den ELSE den
        g == GCD(IF n < 0 THEN 0 - n ELSE n, d)
    IN [num |-> n \div g, den |-> d \div g]

Whole(n) == [num |-> n, den |-> 1]

Plus(a, b) == Frac(a.num * b.den + b.num * a.den, a.den * b.den)

Times(a, b) == Frac(a.num * b.num, a.den * b.den)

Over(a, b) == Frac(a.num * b.den, a.den * b.num)

Minus(a) == [num |-> 0 - a.num, den |-> a.den]

Vector2(x, y) == [x |-> x, y |-> y]

Scaled(c, v) == Vector2(Times(c, v.x), Times(c, v.y))

VectorPlus(v, w) == Vector2(Plus(v.x, w.x), Plus(v.y, w.y))

\* Vector2.magnitude_squared
magnitude_squared(v) == Plus(Times(v.x, v.x), Times(v.y, v.y))

\* Vector2.magnitude, for a vector with whole coordinates and magnitude
magnitude(v) ==
    Whole(CHOOSE n \in 0..magnitude_squared(v).num : n * n = magnitude_squared(v).num)

\* Vector2.normalize, for a vector that is not zero
Normalized(v) == Vector2(Over(v.x, magnitude(v)), Over(v.y, magnitude(v)))

\* Player._calc_velocity
PlayerCalcVelocity(self, delta_time) ==
    LET drag == Times(Times(Frac(1, 2), self.fluid_density), magnitude_squared(self.velocity))
        velocity_direction == IF magnitude(self.velocity) = Whole(0)
                              THEN Vector2(Whole(0), Whole(0))
                              ELSE Normalized(self.velocity)
        total_forces == VectorPlus(Scaled(self.acceleration_magnitude, self.facing_direction),
                                   Scaled(drag, Scaled(Whole(-1), velocity_direction)))
        acceleration == Scaled(Over(Whole(1), self.mass), total_forces)
    IN [drag |-> drag, velocity_direction |-> velocity_direction,
        velocity |-> VectorPlus(self.velocity, Scaled(delta_time, acceleration))]

\* DeadPlayer._calc_velocity
DeadPlayerCalcVelocity(self, delta_time) ==
    LET drag == Times(Times(Frac(1, 2), self.fluid_density), magnitude_squared(self.velocity))
        velocity_direction == IF magnitude(self.velocity) # Whole(0)
                              THEN Normalized(self.velocity)
                              ELSE Vector2(Whole(0), Whole(0))
        total_forces == Scaled(drag, Scaled(Whole(-1), velocity_direction))
        acceleration == Scaled(Over(Whole(1), self.mass), total_forces)
    IN [drag |-> drag, velocity_direction |-> velocity_direction,
        velocity |-> VectorPlus(self.velocity, Scaled(delta_time, acceleration))]

\* the objects and time steps of SpecDrag
DragVelocities ==
    {Vector2(Whole(x), Whole(y)) :
        <<x, y>> \in {<<0, 0>>, <<1, 0>>, <<0, -2>>, <<3, 4>>, <<-6, 8>>, <<10, 0>>}}

DragFacings == {Vector2(Whole(1), Whole(0)), Vector2(Whole(0), Whole(-1))}

DragThrusts == {Whole(0), Whole(3)}

DragMasses == {Whole(1), Whole(2)}

DragDensities == {Frac(1, 10), Whole(1)}

DragTimeSteps == {Frac(1, 10), Frac(1, 2), Whole(1)}

DragCall ==
    /\ body.pc \in {"idle", "returned"}
    /\ \E kind \in {"Player", "DeadPlayer"}, velocity \in DragVelocities,
          facing_direction \in DragFacings, acceleration_magnitude \in DragThrusts,
          mass \in DragMasses, fluid_density \in DragDensities, delta_time \in DragTimeSteps :
          /\ kind = "DeadPlayer"
                => acceleration_magnitude = Whole(0) /\ facing_direction = Vector2(Whole(1), Whole(0))
          /\ body' = [pc |-> "called", kind |-> kind, velocity |-> velocity,
                      velocity_direction |-> Vector2(Whole(0), Whole(0)), drag |-> Whole(0),
                      before |-> <<[velocity |-> velocity, facing_direction |-> facing_direction,
                                    acceleration_magnitude |-> acceleration_magnitude,
                                    mass |-> mass, fluid_density |-> fluid_density],
                                   delta_time>>]

DragReturn ==
    /\ body.pc = "called"
    /\ LET r == IF body.kind = "Player" THEN PlayerCalcVelocity(body.before[1], body.before[2])
                ELSE DeadPlayerCalcVelocity(body.before[1], body.before[2])
       IN body' = [body EXCEPT !.pc = "returned", !.velocity = r.velocity,
                               !.velocity_direction = r.velocity_direction, !.drag = r.drag]

NextDrag ==
    /\ DragCall \/ DragReturn
    /\ UNCHANGED <<gameVars, hitVars, the_gun, gun_calls, the_rect, life, vector, aim, board, spot, ledger>>

SpecDrag == Init /\ [][NextDrag]_vars

(***************************************************************************)
(* SpecRecover: a session in which the player starts the game at once and  *)
(* in every frame fires or does nothing; the shots may hit asteroids and   *)
(* asteroids the ship.  main_loop runs one frame after the other for as    *)
(* long as the clock of the model lets it.                                 *)
(***************************************************************************)
EnvRecover ==
    [menu_events |-> {<<"K_RETURN">>},
     main_events |-> {<< >>, <<"K_SPACE">>},
     keys |-> {{}}, touch |-> {"asteroid"}, shoot |-> {"asteroids"},
     record |-> TRUE, audit |-> FALSE, ticks |-> MaxTicks]

NextRecover ==
    \/ TickIntro(EnvRecover)
    \/ TickMain(EnvRecover)
    \/ TickEnd(EnvRecover)

\* every frame of main_loop advances the clock, and main_loop runs a frame
\* whenever the program is running
ClockTicks ==
    /\ running = "running" /\ now < MaxTicks * FrameMs
    /\ now' = now + FrameMs

SpecRecover == Init /\ [][NextRecover]_vars /\ WF_now(ClockTicks)

(***************************************************************************)
(* SpecLedger: the lives and the score of a session.  Each step is one     *)
(* frame of Main.update, of which the statements that write score,         *)
(* extra_life_tracker and lives are played in their order: _kill_player    *)
(* for a ship that is hit, the gains of _shoot_enemies and                 *)
(* _check_asteroid_collisions, and _add_extra_life.  The frame's gain is   *)
(* below EXTRA_LIFE_TARGET; the session ends when the ship is out of       *)
(* lives.                                                                  *)
(***************************************************************************)
LedgerGains ==
    {0, BASE_SCORE \div 3, BASE_SCORE \div 2, BASE_SCORE, BASE_SCORE * BIG,
     EXTRA_LIFE_TARGET \div 2 - BASE_SCORE \div 2, EXTRA_LIFE_TARGET - BASE_SCORE \div 3}

\* the statements of _shoot_enemies and _check_asteroid_collisions that
\* add a gain
AddGain(m, score_gain) ==
    [m EXCEPT !.score = m.score + score_gain,
              !.extra_life_tracker = m.extra_life_tracker + score_gain]

LedgerInit == ledger = [m |-> FirstRender(MainObject, 0), deaths |-> 0, gain |-> 0]

LedgerStep ==
    /\ ~ledger.m.player_out_of_lives
    /\ ledger.m.score < MaxLedgerScore
    /\ \E is_hit \in BOOLEAN, score_gain \in LedgerGains :
          LET m1 == IF is_hit THEN KillPlayer(ledger.m, 0) ELSE ledger.m
          IN ledger' = [m |-> AddExtraLife(AddGain(m1, score_gain)),
                        deaths |-> IF is_hit THEN ledger.deaths + 1 ELSE ledger.deaths,
                        gain |-> score_gain]

InitLedger ==
    GameInit /\ NoField /\ NoGun /\ NoRect /\ NoLife /\ NoVector /\ NoAim /\ NoBoard /\ NoSpot /\ NoBody /\ LedgerInit

NextLedger ==
    /\ LedgerStep
    /\ UNCHANGED <<gameVars, hitVars, the_gun, gun_calls, the_rect, life, vector, aim, board, spot, body>>

SpecLedger == InitLedger /\ [][NextLedger]_vars

(***************************************************************************)
(* The claims.                                                             *)
(***************************************************************************)

\* C1: every asteroid returned by a call of hit on an asteroid of state
\* S > 1, for every number_to_spawn of the configured range, odd ones
\* included, has state S - 1; every asteroid of the field has a state in
\* {1, 2, 3}.
C1_ChildrenOneTierBelow ==
    /\ (hlast.calls > 0 /\ hlast.self.state > 1 /\ hlast.result.raised = "")
          => \A i \in 1..Len(hlast.result.list) :
                hlast.result.list[i].state = hlast.self.state - 1
    /\ \A a \in BagToSet(hfield) : a.state \in {1, 2, 3}

\* a frame of Main that is not the first of its session has just ended
MainFrame == frame'.state = "MAIN" /\ ~frame'.first_render

\* the ship was killed in the frame that has just ended
Killed == MainFrame /\ main'.player_hit_time = now'

\* C2: when the ship, vulnerable and with one life, is killed in a frame of
\* Main, lives is 0 and that same frame switches the machine to End.
C2_LastLifeEndsSameTick ==
    [][(Killed /\ main.player.lives = 1)
          => /\ main'.player.lives = 0
             /\ current_state' = "END"
             /\ running' = "running"]_vars

\* C3: a frame that kills the ship takes exactly one life, marks the ship
\* not alive, records the time, removes the ship from the players group and
\* adds the wreckage; lives is never negative.
C3_HitCostsOneLife ==
    /\ [][Killed => /\ main'.player.lives = main.player.lives - 1
                    /\ ~main'.player.alive
                    /\ "player" \notin main'.players
                    /\ "dead_player" \in main'.players]_vars
    /\ [](main.player.lives >= 0)

\* the ship was not vulnerable in the frame that has just ended
Protected == MainFrame /\ ~main'.player_is_vulnerable

\* C4: a frame in which the ship is not vulnerable leaves lives, alive and
\* the hit time unchanged and adds no wreckage, whatever overlaps the ship
\* and whatever the last hyperspace roll was.
C4_ProtectedShipUnchanged ==
    [][Protected => /\ main'.player.lives = main.player.lives
                    /\ main'.player.alive = main.player.alive
                    /\ main'.player_hit_time = main.player_hit_time
                    /\ "dead_player" \in main'.players => "dead_player" \in main.players]_vars

\* C4, amended: a frame in which the ship is not vulnerable takes no life,
\* does not mark an alive ship not alive, leaves the hit time unchanged and
\* adds no wreckage, whatever overlaps the ship and whatever the last
\* hyperspace roll was; a ship that is not alive may be respawned in it.
C4_ProtectedShipNotKilled ==
    [][Protected => /\ main'.player.lives >= main.player.lives
                    /\ main.player.alive => main'.player.alive
                    /\ main'.player_hit_time = main.player_hit_time
                    /\ "dead_player" \in main'.players => "dead_player" \in main.players]_vars

\* C4's case: the ship has jumped into hyperspace with a failed roll while
\* an asteroid overlaps it, and it is still alive with all its lives
C4_Witness ==
    /\ frame.state = "MAIN" /\ ~frame.first_render
    /\ ~main.player_is_vulnerable
    /\ frame.contact.asteroid
    /\ ~main.player.remains_alive
    /\ main.player.alive /\ main.player.lives = STARTING_LIVES

\* C5: a ship hit with lives remaining is not alive until PLAYER_DEATH_TIMER
\* has elapsed since the hit; the frame in which it is alive again ends with
\* the ship in the players group, at the screen centre, with zero velocity,
\* the initial facing, and respawning for PLAYER_RESPAWN_TIME.
C5_RespawnAfterDelay ==
    [][(MainFrame /\ ~main.player.alive /\ main'.player.alive)
          => /\ now' - main.player_hit_time >= PLAYER_DEATH_TIMER
             /\ "player" \in main'.players
             /\ main'.player.pos = "centre"
             /\ main'.player.velocity = "zero"
             /\ main'.player.facing_direction = PLAYER_DIR
             /\ main'.player.respawning
             /\ main'.player.respawn_length = PLAYER_RESPAWN_TIME]_vars

TransitionStarted == main.asteroids_spawned /\ ~main'.asteroids_spawned

\* the next wave was spawned
WaveSpawned == ~main.asteroids_spawned /\ main'.asteroids_spawned

\* C10: the level counter changes only in a frame that spawns a wave, and
\* then grows by one; the frame in which the transition starts leaves it
\* unchanged.
C10_LevelGrowsAtSpawn ==
    [][MainFrame => /\ main'.level # main.level
                       => WaveSpawned /\ main'.level = main.level + 1
                    /\ TransitionStarted => main'.level = main.level]_vars

\* C10, amended: the level counter grows by one in the frame in which the
\* field is found cleared and the transition starts, once per cleared wave;
\* every other frame, the one that spawns the next wave included, leaves it
\* unchanged.
C10_LevelGrowsAtTransition ==
    [][MainFrame => IF TransitionStarted
                    THEN main'.level = main.level + 1
                    ELSE main'.level = main.level]_vars

\* C10's case: the second wave has been spawned and the level is 2
C10_Witness ==
    /\ frame.state = "MAIN" /\ main.level = 2
    /\ main.asteroids_spawned /\ main.asteroids # EmptyBag

\* the state changes C7 lists
AllowedChanges ==
    {<<"INTRO", "MAIN">>, <<"INTRO", "CONTROLS">>, <<"INTRO", "OPTIONS">>,
     <<"CONTROLS", "INTRO">>, <<"OPTIONS", "INTRO">>,
     <<"MAIN", "INTRO">>, <<"MAIN", "END">>,
     <<"END", "MAIN">>, <<"END", "INTRO">>}

\* C7: the machine only makes the state changes of AllowedChanges (or
\* terminates); Main is left for Intro only by a frame with Escape, and End
\* is entered only from Main, by a frame in which the ship was killed with
\* no life left (End is set up with lives = 0); Main is never entered from
\* Controls or Options.
C7_OnlyAllowedChanges ==
    [][/\ current_state' # current_state
          => /\ <<current_state, current_state'>> \in AllowedChanges
             /\ frame'.state = current_state
             /\ running' = "running"
       /\ (current_state = "MAIN" /\ current_state' = "INTRO")
          => \E i \in 1..Len(frame'.events) : frame'.events[i] = "K_ESCAPE"
       /\ current_state' = "END" /\ current_state # "END"
          => /\ current_state = "MAIN"
             /\ main'.player_out_of_lives
             /\ main'.player_hit_time = now'
             /\ endst'.is_set_up /\ endst'.lives = 0
       /\ current_state' = "MAIN" => current_state \in {"INTRO", "END", "MAIN"}]_vars

\* C7's case: End has just been entered from Main
C7_Witness ==
    /\ current_state = "END" /\ frame.state = "MAIN"
    /\ main.player.lives = 0 /\ endst.lives = 0

\* C8: one state is current, and every other state that has a seen flag has
\* seen = False; so a frame of such a state runs its _first_render exactly
\* when the frame before was not a frame of this state.
C8_SeenOnlyCurrent ==
    /\ [](/\ current_state \in GameStates
          /\ \A s \in SeenStates \ {current_state} : ~seen[s])
    /\ [][frame'.state \in SeenStates
             => (frame'.first_render <=> frame.state # frame'.state)]_vars

\* C8's case: Intro is entered again, from Controls, Options or Main, and
\* its _first_render runs again
C8_Witness ==
    /\ frame.state = "INTRO" /\ frame.first_render /\ now > FrameMs
    /\ current_state = "MAIN" /\ ~seen["INTRO"] /\ ~seen["MAIN"]

\* C9: a frame whose batch of events holds a QUIT ends with the terminate
\* signal, in every state and whatever else the batch holds.
C9_QuitTerminates ==
    (\E i \in 1..Len(frame.events) : frame.events[i] = "QUIT") => running = "terminated"

\* the level counter moved: _start_level_transition ran in the frame
LevelChanged == main'.level # main.level

\* C11: a wave is spawned only in a frame that has reached level_start_time
\* and that ends with no enemy and no asteroid but the new wave's; the
\* level transition starts only in a frame that found both groups empty
\* after a wave had been spawned, and it uses that wave up.
C11_WaveAndTransitionGuards ==
    [][MainFrame
          => /\ WaveSpawned
                => /\ now' >= main'.level_start_time
                   /\ main'.enemies = << >>
                   /\ main'.asteroids # EmptyBag
                   /\ main'.asteroids =
                         AsteroidSpawn(BagCardinality(main'.asteroids),
                                       PyChannel("explosion_asteroid"))
             /\ LevelChanged
                => /\ main.asteroids_spawned /\ ~main'.asteroids_spawned
                   /\ main'.asteroids = EmptyBag /\ main'.enemies = << >>
                   /\ main'.level = main.level + 1
                   /\ main'.level_start_time = now' + LEVEL_TRANSITION_TIME]_vars

\* C11's case: the first wave was cleared and the transition to the second
\* is under way
C11_Witness ==
    /\ frame.state = "MAIN" /\ main.level = 2 /\ ~main.asteroids_spawned
    /\ main.asteroids = EmptyBag /\ main.enemies = << >>
    /\ main.level_start_time > now

Offset(self, a) == (a.direction + 360 - self.direction) % 360

\* the number that divides 180 into the rotation unit C13 gives for N
UnitDivisor(n) == IF n = 2 \/ n % 2 = 1 THEN n ELSE n - 1

\* the list r.list is what C13 says hit(scale, n) returns for asteroid self
Fragments(self, n, r) ==
    /\ r.raised = "" /\ ~r.is_none
    /\ Len(r.list) = n
    /\ \A k \in 1..n :
          /\ r.list[k].pos = self.pos
          /\ r.list[k].velocity * VELOCITY_SCALE_DEN = self.velocity * VELOCITY_SCALE_NUM
    /\ \A i \in 1..(n \div 2) :
          /\ Offset(self, r.list[2 * i - 1]) * UnitDivisor(n) = 180 * i
          /\ Offset(self, r.list[2 * i]) = 360 - Offset(self, r.list[2 * i - 1])
    /\ n % 2 = 1 => Offset(self, r.list[n]) = 180
    /\ \A j, k \in 1..n : j # k => Offset(self, r.list[j]) # Offset(self, r.list[k])

\* C13: a call of hit with number_to_spawn N on an asteroid of state S > 1
\* returns N fragments at the parent's position, with the parent's velocity
\* times the scale, at the offsets +theta_i and -theta_i (theta_i times
\* UnitDivisor(N) = 180 times i) and at 180 degrees when N is odd, all
\* distinct; on an asteroid of state 1 it returns None and the field only
\* loses the asteroid.
C13_FragmentsOfHit ==
    /\ [](hlast.calls > 0
            => IF hlast.self.state > 1
               THEN Fragments(hlast.self, hlast.number_to_spawn, hlast.result)
               ELSE hlast.result = NoHitResult)
    /\ [][(hlast'.calls # hlast.calls /\ hlast'.self.state = 1)
             => hfield' = hfield (-) SetToBag({hlast'.self})]_vars

\* C14: when hit returns an odd number N >= 3 of fragments, no two that
\* are next to each other in the list have the same image_number.
C14_NoAdjacentImage ==
    (/\ hlast.calls > 0 /\ hlast.result.raised = ""
     /\ Len(hlast.result.list) % 2 = 1)
       => \A k \in 1..(Len(hlast.result.list) - 1) :
             hlast.result.list[k].image_number # hlast.result.list[k + 1].image_number

\* C15: when the first three calls of fire on a new gun come at times
\* t1 <= t2 < t1 + interval <= t3, the first returns a Shot, the second
\* None and the third a Shot.
C15_FireRateGating ==
    LET log == gun_calls.log IN
    (/\ Len(log) = 3
     /\ log[1].current_time <= log[2].current_time
     /\ log[2].current_time < log[1].current_time + gun_calls.fire_rate
     /\ log[1].current_time + gun_calls.fire_rate <= log[3].current_time)
       => log[1].shot /\ ~log[2].shot /\ log[3].shot

\* C16: a call of fire before the cooldown has elapsed returns None, leaves
\* _last_shot_time unchanged and plays no sound; any other call returns a
\* Shot, plays the sound once and sets _last_shot_time to current_time; two
\* Shots of one gun are at least a fire interval apart.
C16_FireEffects ==
    /\ [][gun_calls'.log # gun_calls.log
             => LET call == gun_calls'.log[Len(gun_calls'.log)] IN
                IF call.current_time < the_gun.last_shot_time + gun_calls.fire_rate
                THEN /\ ~call.shot
                     /\ the_gun' = the_gun
                     /\ gun_calls'.cues = gun_calls.cues
                ELSE /\ call.shot
                     /\ the_gun'.last_shot_time = call.current_time
                     /\ gun_calls'.cues = gun_calls.cues + 1]_vars
    /\ [](\A i, j \in 1..Len(gun_calls.log) :
             (i < j /\ gun_calls.log[i].shot /\ gun_calls.log[j].shot)
                => gun_calls.log[j].current_time - gun_calls.log[i].current_time
                      >= gun_calls.fire_rate)

\* C16's case: a Shot, a call during the cooldown, and a Shot after it
C16_Witness ==
    /\ Len(gun_calls.log) = 3 /\ gun_calls.cues = 2
    /\ gun_calls.log[1].shot /\ ~gun_calls.log[2].shot /\ gun_calls.log[3].shot
    /\ gun_calls.log[2].current_time > gun_calls.log[1].current_time

\* C17: one call of _check_collide makes at most one correction, the first
\* that applies of bottom < 0, top > height, right < 0, left > width; with
\* bottom < 0 the rect ends with top = height and its horizontal
\* coordinates unchanged.
C17_OneCorrection ==
    LET newpos == the_rect.newpos
        rect == the_rect.rect
        area == the_rect.area
    IN the_rect.calls > 0
         => /\ rect.width = newpos.width /\ rect.height = newpos.height
            /\ rect.top = newpos.top \/ rect.left = newpos.left
            /\ IF Bottom(newpos) < 0
               THEN rect.top = area.height /\ rect.left = newpos.left
               ELSE IF newpos.top > area.height
               THEN Bottom(rect) = 0 /\ rect.left = newpos.left
               ELSE IF Right(newpos) < 0
               THEN rect.left = area.width /\ rect.top = newpos.top
               ELSE IF newpos.left > area.width
               THEN Right(rect) = 0 /\ rect.top = newpos.top
               ELSE rect = newpos

\* C17's case: the rect left the area at the top and at the left at once
C17_Witness ==
    /\ the_rect.calls > 0
    /\ Bottom(the_rect.newpos) < 0 /\ Right(the_rect.newpos) < 0
    /\ the_rect.rect.top = the_rect.area.height
    /\ the_rect.rect.left = the_rect.newpos.left

\* C18: a call of _add_extra_life with the tracker at EXTRA_LIFE_TARGET or
\* more adds exactly one life and leaves tracker mod EXTRA_LIFE_TARGET; any
\* other call changes nothing; after the call the tracker is below
\* EXTRA_LIFE_TARGET.
C18_OneLifePerCheck ==
    /\ IF life.before.extra_life_tracker >= EXTRA_LIFE_TARGET
       THEN /\ life.m.player.lives = life.before.player.lives + 1
            /\ life.m.extra_life_tracker
                  = life.before.extra_life_tracker % EXTRA_LIFE_TARGET
       ELSE life.m = life.before
    /\ life.m.extra_life_tracker < EXTRA_LIFE_TARGET

\* C18's case: the tracker went beyond the target and a life was granted,
\* the remainder carried over
C18_Witness ==
    /\ life.before.extra_life_tracker > EXTRA_LIFE_TARGET
    /\ life.m.player.lives = STARTING_LIVES + 1
    /\ life.m.extra_life_tracker > 0

\* the score of a bag of asteroids destroyed by shots of the ship:
\* int(BASE_SCORE / state) for each
RECURSIVE AsteroidsWorth(_)
AsteroidsWorth(asteroids) ==
    IF asteroids = EmptyBag THEN 0
    ELSE LET a == CHOOSE a \in BagToSet(asteroids) : TRUE
         IN (BASE_SCORE \div a.state) + AsteroidsWorth(asteroids (-) SetToBag({a}))

\* the score of a bag of states of enemies destroyed by shots of the ship:
\* int(BASE_SCORE * state.value) for each
RECURSIVE EnemiesWorth(_)
EnemiesWorth(states) ==
    IF states = EmptyBag THEN 0
    ELSE LET st == CHOOSE st \in BagToSet(states) : TRUE
         IN BASE_SCORE * st + EnemiesWorth(states (-) SetToBag({st}))

\* C19: the score never decreases within a session, and every frame adds
\* to it exactly int(BASE_SCORE / state) for each asteroid destroyed by a
\* shot of the ship and int(BASE_SCORE * state weight) for each enemy
\* destroyed by a shot of the ship; the first frame of a session starts the
\* count at 0 and a frame of another state leaves the score alone.
C19_ScoreLedger ==
    [][/\ MainFrame => /\ main'.score >= main.score
                       /\ main'.score = main.score + AsteroidsWorth(frame'.hits.by_player)
                                                   + EnemiesWorth(frame'.hits.enemies)
       /\ (frame'.state = "MAIN" /\ frame'.first_render) => main'.score = 0
       /\ frame'.state # "MAIN" => main'.score = main.score]_vars

\* every frame of Main that update and render complete keeps that account
CompletedFramesKeepLedger ==
    [][(MainFrame /\ running' # "crashed")
          => main'.score = main.score + AsteroidsWorth(frame'.hits.by_player)
                                      + EnemiesWorth(frame'.hits.enemies)]_vars

\* the asteroids of a bag that break into fragments when hit: state > 1
RECURSIVE Breakable(_)
Breakable(asteroids) ==
    IF asteroids = EmptyBag THEN 0
    ELSE LET a == CHOOSE a \in BagToSet(asteroids) : TRUE
         IN (IF a.state > 1 THEN 1 ELSE 0) + Breakable(asteroids (-) SetToBag({a}))

\* the frame's hit asteroids are gone from the field and each one of state
\* > 1 has left its MIN_BROKEN_ASTEROIDS..MAX_BROKEN_ASTEROIDS fragments
Fragmented ==
    LET gone == frame'.hits.by_player (+) frame'.hits.by_enemies
        rest == BagCardinality(main.asteroids) - BagCardinality(gone)
        after == BagCardinality(main'.asteroids)
    IN /\ rest + MIN_BROKEN_ASTEROIDS * Breakable(gone) <= after
       /\ after <= rest + MAX_BROKEN_ASTEROIDS * Breakable(gone)

\* no shot of the ship has hit anything in the frame
EnemyShotsOnly ==
    /\ frame'.hits.by_enemies # EmptyBag
    /\ frame'.hits.by_player = EmptyBag
    /\ frame'.hits.enemies = EmptyBag

\* C20: a frame in which asteroids are destroyed by shots of enemies only
\* leaves the score unchanged and still breaks them into fragments; a frame
\* in which shots of the ship destroy asteroids adds the score of each such
\* asteroid exactly once, however many shots hit, and nothing for the
\* asteroids that shots of enemies destroy.
C20_ScoreByOwner ==
    [][MainFrame
          => /\ EnemyShotsOnly => (main'.score = main.score /\ Fragmented)
             /\ (frame'.hits.by_player # EmptyBag /\ frame'.hits.enemies = EmptyBag)
                   => main'.score = main.score + AsteroidsWorth(frame'.hits.by_player)]_vars

\* every frame of Main that update and render complete scores by owner
CompletedFramesScoreByOwner ==
    [][(MainFrame /\ running' # "crashed")
          => /\ (frame'.hits.by_player # EmptyBag \/ frame'.hits.by_enemies # EmptyBag)
                   => Fragmented
             /\ EnemyShotsOnly => main'.score = main.score
             /\ (frame'.hits.by_player # EmptyBag /\ frame'.hits.enemies = EmptyBag)
                   => main'.score = main.score + AsteroidsWorth(frame'.hits.by_player)]_vars

\* the frame of Main that has just ended switched the machine to End
GameOver == MainFrame /\ current_state' = "END"

\* C21: the score that End shows and hands to the highscore list is the
\* score of the session at the end of the last frame of Main, the points
\* of the frame in which the last life was lost included.
C21_FinalScoreIsSessionScore ==
    [][GameOver => endst'.score = main'.score]_vars

\* C22: no frame ends with the normalisation of a zero-length vector
\* raising: the update of a SMALL enemy whose rect has the origin of the
\* ship's rect, and the updates of a ship or wreckage at rest, complete.
C22_NormalizeNeverRaises == main.exc # "ValueError"

\* C23: every direction that random_angle_vector returns for a new asteroid
\* or enemy has both |x| and |y| at least min_angle, whatever was drawn.
C23_BothComponentsAboveMinimum ==
    vector.pc = "returned"
       => /\ Abs(vector.direction.x) >= vector.min_angle
          /\ Abs(vector.direction.y) >= vector.min_angle

\* the direction returned has one of |x| and |y| at least min_angle
OneComponentAboveMinimum ==
    vector.pc = "returned"
       => \/ Abs(vector.direction.x) >= vector.min_angle
          \/ Abs(vector.direction.y) >= vector.min_angle

\* a / b <= c for a fraction a / b with b > 0 and a whole c, and c <= a / b
FractionAtMost(f, c) == f.num <= c * f.den

FractionAtLeast(f, c) == f.num >= c * f.den

\* C24: the inaccuracy of a SMALL enemy's aim is the linear blend of the
\* maximal and the minimal inaccuracy keyed by score / max_score; for every
\* score >= 0 it lies between the minimal and the maximal inaccuracy, and
\* no higher score gives a larger inaccuracy.
C24_InaccuracyBounded ==
    aim.called
       => /\ aim.rotate_amount.den = ENEMY_MAX_DIFFICULTY_AT_SCORE
          /\ aim.rotate_amount.num
                = ENEMY_MAX_INNACURACY_ANGLE * ENEMY_MAX_DIFFICULTY_AT_SCORE
                  - (ENEMY_MAX_INNACURACY_ANGLE - ENEMY_MIN_INNACURACY_ANGLE) * aim.score
          /\ FractionAtLeast(aim.rotate_amount, ENEMY_MIN_INNACURACY_ANGLE)
          /\ FractionAtMost(aim.rotate_amount, ENEMY_MAX_INNACURACY_ANGLE)
          /\ \A score \in AimScores :
                score >= aim.score => RotateAmount(score).num <= aim.rotate_amount.num

\* the blend is linear, never above the maximal inaccuracy and not
\* increasing; it is at least the minimal one up to the score of maximal
\* difficulty
InaccuracyBoundedToMaxScore ==
    aim.called
       => /\ aim.rotate_amount.num
                = ENEMY_MAX_INNACURACY_ANGLE * ENEMY_MAX_DIFFICULTY_AT_SCORE
                  - (ENEMY_MAX_INNACURACY_ANGLE - ENEMY_MIN_INNACURACY_ANGLE) * aim.score
          /\ aim.score <= ENEMY_MAX_DIFFICULTY_AT_SCORE
                => FractionAtLeast(aim.rotate_amount, ENEMY_MIN_INNACURACY_ANGLE)
          /\ FractionAtMost(aim.rotate_amount, ENEMY_MAX_INNACURACY_ANGLE)
          /\ \A score \in AimScores :
                score >= aim.score => RotateAmount(score).num <= aim.rotate_amount.num

\* the frame that has just ended put the ship back with Player._reset
ShipReset == ~main.player.alive /\ main'.player.alive

\* C25: turn and thrust are directives of one frame: whatever the frames
\* before did, the ship being hit, dead or respawned included, a frame of
\* Main in which no turn or thrust key is held leaves the facing direction
\* unrotated and applies no thrust.
C25_DirectivesLastOneFrame ==
    [][(MainFrame /\ frame'.keys = {})
          => /\ main'.player.facing_direction
                   = IF ShipReset THEN PLAYER_DIR ELSE main.player.facing_direction
             /\ main'.player.velocity = "moving"
                   => (main.player.velocity = "moving" /\ ~ShipReset)]_vars

\* as long as the ship has not been hit, a frame of Main without turn or
\* thrust key neither rotates nor accelerates it
DirectivesOfUnhitShipLastOneFrame ==
    [][(MainFrame /\ frame'.keys = {} /\ main.player_hit_time = 0 /\ main'.player_hit_time = 0)
          => /\ main'.player.facing_direction = main.player.facing_direction
             /\ main'.player.velocity = "moving" => main.player.velocity = "moving"]_vars

\* the ship has no control when the frame reads its input
NoControl == ~(main.player.alive /\ ~main.player.in_hyperspace)

\* the frame that has just ended is one that Main can run from the same
\* state with no event and no key
SameFrameWithoutInput ==
    \E w \in MainFrames(main, endst, TRUE, MainGetInput(<< >>, {}), now', FrameMs, EnvInput) :
       w.m = main'

SpritesUpdated ==
    /\ running' # "crashed"
    /\ \/ frame'.state = "END"
       \/ MainFrame /\ main'.all_assets

\* every shot of new older than one frame is a shot of old, one frame older
AgedFrom(new, old) ==
    \A lifetime \in BagToSet(new) :
       lifetime > FrameMs => CopiesIn(lifetime, new) <= CopiesIn(lifetime - FrameMs, old)

\* every shot of new is a shot of old or just fired
KeptFrom(new, old) ==
    \A lifetime \in BagToSet(new) :
       lifetime > 0 => CopiesIn(lifetime, new) <= CopiesIn(lifetime, old)

\* C27: the age of a projectile only increases, by the frame time at every
\* update of its group, and the projectile is removed at the first update
\* that brings its age to the lifespan or beyond; so a projectile that hits
\* nothing is gone after lifespan / frame time updates and no projectile of
\* a group, where the collision checks find it, is as old as its lifespan.
C27_ShotsExpire ==
    /\ [](/\ \A lifetime \in BagToSet(main.shots) : lifetime < PLAYER_BULLET_LIFESPAN
          /\ \A lifetime \in BagToSet(main.enemy_shots) : lifetime < ENEMY_BULLET_LIFESPAN)
    /\ [][SpritesUpdated
             => /\ AgedFrom(main'.shots, main.shots)
                /\ AgedFrom(main'.enemy_shots, main.enemy_shots)
                /\ \A lifetime \in BagToSet(main'.shots) \cup BagToSet(main'.enemy_shots) :
                      lifetime >= FrameMs]_vars
    /\ [][((MainFrame \/ frame'.state = "END") /\ ~SpritesUpdated)
             => /\ KeptFrom(main'.shots, main.shots)
                /\ KeptFrom(main'.enemy_shots, main.enemy_shots)]_vars

C27_Witness ==
    /\ frame.state = "END" /\ running = "running"
    /\ main.shots = EmptyBag
    /\ main.enemy_shots # EmptyBag
    /\ main.player.gun.last_shot_time > 0

\* the scores of highscores.txt as the last call found it and as it is now
Stored == ReadScores(board.last.before.lines)

Persisted == ReadScores(board.file.lines)

IsSortedReverse(list) == \A i \in 1..(Len(list) - 1) : list[i] >= list[i + 1]

\* C28: when the stored list has 5 scores in descending order and the new
\* score is higher than the lowest of them, the resulting list has length
\* 5, is in descending order, holds the new score at the highlighted index
\* and has given up the lowest stored score and nothing else.
C28_InsertIntoFullList ==
    (/\ board.last.called /\ board.last.before.exists
     /\ Len(Stored) = 5 /\ IsSortedReverse(Stored)
     /\ board.last.new_score > Stored[5])
       => /\ Len(board.last.highscores) = 5
          /\ IsSortedReverse(board.last.highscores)
          /\ board.last.new_highscore
          /\ board.last.new_highscore_position \in 0..4
          /\ board.last.highscores[board.last.new_highscore_position + 1]
                = board.last.new_score
          /\ SeqToBag(board.last.highscores)
                = (SeqToBag(Stored) (-) SetToBag({Stored[5]}))
                     (+) SetToBag({board.last.new_score})
          /\ Persisted = board.last.highscores

C28_Witness ==
    /\ board.last.called /\ board.last.before.exists
    /\ Len(Stored) = 5 /\ IsSortedReverse(Stored)
    /\ board.last.new_score > Stored[5]
    /\ board.last.new_score < Stored[1]
    /\ board.last.new_highscore_position \in 1..3

\* C29: after any sequence of game overs, from a missing highscores.txt on,
\* the file holds at most 5 entries "<rank>. <score>" in descending order,
\* rank 1 the highest, and every entry is at least every final score that
\* was dropped or not admitted.
C29_PersistedList ==
    board.last.called
       => /\ board.file.exists
          /\ Len(board.file.lines) <= 5
          /\ Len(Persisted) = Len(board.file.lines)
          /\ \A i \in 1..Len(Persisted) : board.file.lines[i] = Line(i - 1, Persisted[i])
          /\ IsSortedReverse(Persisted)
          /\ \A i \in 1..Len(Persisted) : Persisted[i] >= board.lost

C29_Witness ==
    /\ board.last.called
    /\ Len(Persisted) = 5
    /\ board.lost > 0
    /\ Persisted[5] > board.lost
    /\ Persisted[1] > Persisted[5]

\* C30: a game over that finds no highscores.txt leaves the same file and
\* the same new-highscore outcome as one that finds an empty file, for
\* every final score, and a final score of 0 is never among the entries.
C30_MissingLikeEmpty ==
    /\ (board.last.called /\ ~board.last.before.exists)
          => /\ board.file = Highscores(board.last.new_score, EmptyFile).file
             /\ board.last.new_highscore
                   = Highscores(board.last.new_score, EmptyFile).new_highscore
    /\ \A i \in 1..Len(Persisted) : Persisted[i] # 0

\* for a final score above 0 a missing file is like an empty one
MissingLikeEmptyAboveZero ==
    (board.last.called /\ ~board.last.before.exists /\ board.last.new_score > 0)
       => /\ board.file = Highscores(board.last.new_score, EmptyFile).file
          /\ board.last.new_highscore
                = Highscores(board.last.new_score, EmptyFile).new_highscore

\* the frame put a new enemy into the enemies group
EnemyAppeared ==
    /\ frame'.state = "MAIN"
    /\ Len(main'.enemies) + BagCardinality(frame'.hits.enemies)
          > (IF frame'.first_render THEN 0 ELSE Len(main.enemies))

\* C31: an enemy appears no earlier than TIME_BETWEEN_ENEMY_SPAWNS after
\* the scheduled start of the level's wave, and no earlier than
\* TIME_BETWEEN_ENEMY_SPAWNS - ENEMY_OVERLAP_OFFSET after the last frame in
\* which an enemy was destroyed.
C31_EnemySpawnsTimeGated ==
    [][EnemyAppeared
          => /\ now' >= main'.level_start_time + TIME_BETWEEN_ENEMY_SPAWNS
             /\ frame'.killed_at # -1
                   => now' >= frame'.killed_at + TIME_BETWEEN_ENEMY_SPAWNS
                                 - ENEMY_OVERLAP_OFFSET]_vars

\* the second enemy, in the first frame that may spawn it
C31_Witness ==
    /\ frame.state = "MAIN" /\ frame.killed_at # -1
    /\ Len(main.enemies) = 1 /\ main.previous_enemy_spawn = now
    /\ now = frame.killed_at + TIME_BETWEEN_ENEMY_SPAWNS - ENEMY_OVERLAP_OFFSET

\* the first enemy of the second level
FirstEnemyOfSecondLevel ==
    /\ frame.state = "MAIN" /\ main.level = 2 /\ frame.killed_at = -1
    /\ Len(main.enemies) = 1 /\ main.previous_enemy_spawn = now

AtEdge(position) ==
    \/ position.x \in {0, ScreenWidth}
    \/ position.y \in {0, ScreenHeight}

\* C32: every enemy that Enemy.spawn returns to _spawn_enemy is at an edge
\* of the screen and at least MIN_ENEMY_DISTANCE away from the centre of
\* the ship's rect.
C32_EnemyAtEdgeAndAway ==
    spot.pc = "returned"
       => /\ AtEdge(spot.position)
          /\ spot.distance2 >= MIN_ENEMY_DISTANCE * MIN_ENEMY_DISTANCE

\* every enemy enters at an edge
EnemyEntersAtEdge == spot.pc = "returned" => AtEdge(spot.position)

\* the call of _calc_velocity that returned had no thrust
NoThrust == body.pc = "returned" /\ body.before[1].acceleration_magnitude = Whole(0)

AtMost(a, b) == a.num * b.den <= b.num * a.den

Dot(v, w) == Plus(Times(v.x, w.x), Times(v.y, w.y))

\* C33: an update without thrust never increases the speed and never
\* reverses the velocity, for every velocity, mass, fluid density and time
\* step; at rest the drag is 0, velocity_direction is the zero vector and
\* the velocity stays zero.
C33_DragOnlyOpposes ==
    NoThrust
       => /\ AtMost(magnitude_squared(body.velocity), magnitude_squared(body.before[1].velocity))
          /\ AtMost(Whole(0), Dot(body.velocity, body.before[1].velocity))
          /\ body.before[1].velocity = Vector2(Whole(0), Whole(0))
                => /\ body.drag = Whole(0)
                   /\ body.velocity_direction = Vector2(Whole(0), Whole(0))
                   /\ body.velocity = Vector2(Whole(0), Whole(0))

\* the drag is 0.5 * fluid density * speed squared; at rest nothing moves
DragAtRest ==
    NoThrust
       => /\ body.drag = Times(Times(Frac(1, 2), body.before[1].fluid_density),
                               magnitude_squared(body.before[1].velocity))
          /\ body.before[1].velocity = Vector2(Whole(0), Whole(0))
                => /\ body.drag = Whole(0)
                   /\ body.velocity_direction = Vector2(Whole(0), Whole(0))
                   /\ body.velocity = Vector2(Whole(0), Whole(0))

\* the step is small enough: fluid density * speed * delta_time <= 2 * mass
SmallStep ==
    AtMost(Times(Times(body.before[1].fluid_density, magnitude(body.before[1].velocity)),
                 body.before[2]),
           Times(Whole(2), body.before[1].mass))

\* with a small enough step the drag only opposes the motion
DragOnlyOpposesSmallSteps ==
    (NoThrust /\ SmallStep)
       => /\ AtMost(magnitude_squared(body.velocity), magnitude_squared(body.before[1].velocity))
          /\ AtMost(Whole(0), Dot(body.velocity, body.before[1].velocity))

\* C34: at the end of every Main frame the ship is alive if and only if it
\* is in the players group.
C34_AliveIffInGroup ==
    frame.state = "MAIN" => (main.player.alive <=> "player" \in main.players)

\* a ship in the players group is alive
ShipInGroupIsAlive ==
    (frame.state = "MAIN" /\ "player" \in main.players) => main.player.alive

\* a Main frame has ended, the session goes on and the ship cannot be hit:
\* it is dead with lives left, respawning or in hyperspace
Invulnerable ==
    /\ running = "running" /\ current_state = "MAIN" /\ frame.state = "MAIN"
    /\ main.player.lives > 0
    /\ ~main.player.alive \/ main.player.respawning \/ main.player.in_hyperspace

\* what _check_player_vulnerability finds at the next frame
Vulnerable ==
    /\ CheckPlayerVulnerability(main).player_has_control
    /\ CheckPlayerVulnerability(main).player_is_vulnerable

Stranded ==
    /\ frame.state = "MAIN" /\ current_state = "MAIN"
    /\ main.player.alive /\ main.player.respawning /\ "player" \notin main.players

\* a stranded ship stays stranded in every further frame of the session
StrandedForGood ==
    [][(Stranded /\ frame'.state = "MAIN") => (Stranded' \/ current_state' # "MAIN")]_vars

\* a ship that is not stranded recovers
OthersRecover ==
    (Invulnerable /\ ~Stranded /\ frame.events = << >> /\ now + RecoverTime <= MaxTicks * FrameMs)
       ~> (Vulnerable \/ Stranded \/ frame.events # << >>
              \/ current_state # "MAIN" \/ running # "running")

\* the ship is alive after a failed hyperspace roll: remains_alive is False
FailedRollPending == main.player.alive /\ ~main.player.remains_alive

\* C36: a failed hyperspace roll costs exactly one life.  While the roll is
\* pending a frame either leaves it pending, with the lives as they are, or
\* takes one life; the frame that finds the ship vulnerable takes the life;
\* and the respawn after a death sets remains_alive again.
C36_FailedRollCostsOneLife ==
    [][MainFrame
          => /\ FailedRollPending
                   => \/ FailedRollPending' /\ main'.player.lives = main.player.lives
                      \/ main'.player.lives = main.player.lives - 1
             /\ (FailedRollPending /\ main'.player_is_vulnerable)
                   => ~main'.player.alive /\ main'.player.lives = main.player.lives - 1
             /\ (~main.player.alive /\ main'.player.alive) => main'.player.remains_alive]_vars

\* a pending failed roll is only replaced by another hyperspace jump
FailedRollEscapedOnlyByJump ==
    [][(MainFrame /\ FailedRollPending /\ ~FailedRollPending'
           /\ main'.player.lives = main.player.lives)
          => \E i \in 1..Len(frame'.events) : frame'.events[i] = "K_LSHIFT"]_vars

\* C36 without a second jump: the frame that finds the ship vulnerable takes
\* one life, and a respawn after a death sets remains_alive
FailedRollKillsWithoutJump ==
    [][MainFrame
          => /\ (FailedRollPending /\ main'.player_is_vulnerable)
                   => ~main'.player.alive /\ main'.player.lives = main.player.lives - 1
             /\ (~main.player.alive /\ main'.player.alive) => main'.player.remains_alive]_vars

\* C37: with less than EXTRA_LIFE_TARGET scored in any one frame, at the
\* end of every frame the tracker is score mod EXTRA_LIFE_TARGET and lives
\* is STARTING_LIVES less the deaths plus score div EXTRA_LIFE_TARGET.
C37_LivesLedger ==
    /\ ledger.m.extra_life_tracker = ledger.m.score % EXTRA_LIFE_TARGET
    /\ ledger.m.player.lives
          = STARTING_LIVES - ledger.deaths + (ledger.m.score \div EXTRA_LIFE_TARGET)

\* a ship that died twice and earned two lives, the second one in a frame
\* that scored nearly EXTRA_LIFE_TARGET
C37_Witness ==
    /\ ledger.deaths = 2
    /\ ledger.m.score >= 2 * EXTRA_LIFE_TARGET
    /\ ledger.gain = EXTRA_LIFE_TARGET - BASE_SCORE \div 3
    /\ ledger.m.extra_life_tracker > 0
    /\ ledger.m.player.lives = STARTING_LIVES

\* the same ledger, frame by frame, in the sessions of Main: a frame that
\* completes changes lives by the extra lives of its score less its death
LivesLedgerOfFrames ==
    [][(MainFrame /\ main'.exc = "")
          => /\ main'.extra_life_tracker = main'.score % EXTRA_LIFE_TARGET
             /\ main'.player.lives
                   = main.player.lives - (IF Killed THEN 1 ELSE 0)
                        + (main'.score \div EXTRA_LIFE_TARGET)
                        - (main.score \div EXTRA_LIFE_TARGET)]_vars

\* C38: there is never more than one enemy, and at the end of every Main
\* frame enemy_spawned is true if and only if the enemies group is not
\* empty.
C38_OneEnemyAndFlag ==
    /\ Len(main.enemies) <= 1
    /\ frame.state = "MAIN" => (main.enemy_spawned <=> Len(main.enemies) > 0)

\* the second enemy of a session is in the field
C38_Witness ==
    /\ frame.state = "MAIN" /\ frame.killed_at # -1
    /\ Len(main.enemies) = 1 /\ main.enemy_spawned

\* the hits an asteroid of a state and all its descendants can take at
\* most: itself and MAX_BROKEN_ASTEROIDS fragments one state below, each
\* with its own descendants (1, 1 + N and 1 + N + N * N for the states
\* 1, 2 and 3)
RECURSIVE HitBudget(_)
HitBudget(state) ==
    IF state <= 1 THEN 1
    ELSE 1 + MAX_BROKEN_ASTEROIDS * HitBudget(state - 1)

\* the hits the asteroids of a field and their descendants can take at most
RECURSIVE HitsLeft(_)
HitsLeft(field) ==
    IF field = EmptyBag THEN 0
    ELSE LET a == CHOOSE x \in BagToSet(field) : TRUE
         IN HitBudget(a.state) + HitsLeft(field (-) SetToBag({a}))

\* a call of hit has just been made on an asteroid of the field
HitCalled == hlast'.calls # hlast.calls

\* C39: fragmentation terminates.  Every call of hit on an asteroid of the
\* field returns, and it lowers the number of hits the field can still
\* take; the hits made so far and the hits the field can still take are
\* together at most 1 + N + N * N, the state-3 asteroid of the wave and its
\* N + N * N descendants, N being the maximal spawn count.  So a field whose
\* asteroids all get hit is empty after at most that many hits.
C39_FragmentationTerminates ==
    /\ [](hlast.calls + HitsLeft(hfield) <= HitBudget(DEFAULT_ASTEROID_STATE))
    /\ [][HitCalled => /\ hlast'.result.raised = ""
                       /\ HitsLeft(hfield') < HitsLeft(hfield)]_vars

\* what holds in the code: a call of hit that spawns an even number of
\* asteroids, or is made on an asteroid of state 1, lowers the number of
\* hits the field can still take
EvenFragmentationTerminates ==
    [][(/\ HitCalled
        /\ hlast'.result.raised = ""
        /\ (hlast'.self.state = 1 \/ HitEven(hlast'.number_to_spawn)))
          => HitsLeft(hfield') < HitsLeft(hfield)]_vars

\* the channel Main hands to the asteroids of a wave
WaveChannel == PyChannel("explosion_asteroid")

\* C40: every asteroid of the field, the asteroids of the wave and every
\* fragment (the last one of an odd spawn count included), carries the
\* explosion channel of its wave, so no call of hit on an asteroid of the
\* field raises, for any spawn count of the configured range, and none has.
C40_EveryAsteroidCarriesChannel ==
    /\ \A a \in BagToSet(hfield) :
          /\ a.explosion_channel = WaveChannel
          /\ \A n \in BrokenCounts : \A d \in HitDraws(n) :
                hit(a, VELOCITY_SCALE_NUM, VELOCITY_SCALE_DEN, n, d).raised = ""
    /\ hlast.result.raised = ""

\* what holds in the code: the fragments of an even spawn count, and all
\* fragments but the last of an odd one, carry the channel of their parent
PairedFragmentsCarryChannel ==
    (hlast.calls > 0 /\ hlast.result.raised = "")
       => \A i \in 1..Len(hlast.result.list) :
             (HitEven(hlast.number_to_spawn) \/ i < Len(hlast.result.list))
                => hlast.result.list[i].explosion_channel
                      = hlast.self.explosion_channel

====
